---- MODULE Spec2Model ----
(***************************************************************************)
(* QueryForge: role-based resource visibility, approval and versioning of  *)
(* Model and Persona records, and the read and approval gates of Agent,    *)
(* Workflow and Tool records (routes/*.py, services/auth_service.py,       *)
(* services/llm_service.py, models/*.py, init_db.py).                      *)
(*                                                                         *)
(* The database is the state and every HTTP handler is one action.         *)
(*   SpecSeq  the model and persona routes, one request at a time;         *)
(*   SpecAll  these and the agent, workflow and tool routes, one request   *)
(*            at a time;                                                   *)
(*   Spec     the model and persona routes with update requests that       *)
(*            overlap: an update reads in one step and commits in a later  *)
(*            one.                                                         *)
(*   SpecAudit  SpecSeq with requests during which the audit table cannot   *)
(*            be written (log_activity takes its except branch).           *)
(*   SpecVersions  updates of the sample model, from a database in which   *)
(*            its one version row carries any version string;              *)
(*   SpecDeletes  creation and deletion of agents, workflows and tools,    *)
(*            the audit table failing during some of the deletions;        *)
(*   SpecLifecycle  create, update and delete of an agent and delete of    *)
(*            its model and persona, up to MaxHistory audit records;       *)
(*   SpecSamples  the persona routes over two sample personas, updates     *)
(*            overlapping.                                                 *)
(***************************************************************************)
EXTENDS Integers, Sequences, FiniteSets, TLC

\* ------------------------------------------------------------------ bounds
MaxAudit == 2
MaxModels == 2
MaxPersonas == 2
MaxInflight == 2
MaxAgents == 1
MaxWorkflows == 1
MaxTools == 2
MaxVersions == 1
MaxParts == 4
MaxHistory == 4

\* Python None, SQL NULL, or a key that the JSON body does not carry.
NULL == "NULL"

\* data.get('temperature', 0.1)
DefaultTemperature == "0.1"

\* A JSON request body is the function from the keys it carries to their
\* values: `field in data` is field \in DOMAIN data, {} is EmptyBody.
EmptyBody == [f \in {} |-> NULL]
Get(data, f) == IF f \in DOMAIN data THEN data[f] ELSE NULL

\* ------------------------------------------------------------------- users
\* init_db.py creates the three roles; one user of each.
UserIds == {1, 2, 3}

role_name(u) ==
    CASE u = 1 -> "Admin"
      [] u = 2 -> "Developer"
      [] OTHER -> "Business User"

has_role(u, r) == role_name(u) = r

\* The decorator lets the handler run iff the user's role is in the list.
require_role(u, required_role) == role_name(u) \in required_role

VARIABLES
    models,           \* table models: id -> row
    model_versions,   \* table model_versions, in created_at order
    personas,         \* table personas: id -> row
    persona_versions, \* table persona_versions, in created_at order
    audit_logs,       \* table audit_logs, in insertion order
    model_seq,        \* next primary key of models
    persona_seq,      \* next primary key of personas
    version_seq,      \* next primary key of model_versions
    pversion_seq,     \* next primary key of persona_versions
    agents,           \* table agents: id -> row
    workflows,        \* table workflows: id -> row
    tools,            \* table tools: id -> row
    agent_seq,        \* next primary key of agents
    workflow_seq,     \* next primary key of workflows
    tool_seq,         \* next primary key of tools
    inflight          \* update requests that have read and not yet committed

\* The tables of the orchestration routes (agents, workflows, tools).
orchestration == <<agents, workflows, tools, agent_seq, workflow_seq, tool_seq>>
\* The tables of the catalog routes (models, personas) and their versions.
catalog == <<models, model_versions, personas, persona_versions,
             model_seq, persona_seq, version_seq, pversion_seq>>
db == <<catalog, audit_logs, orchestration>>
vars == <<db, inflight>>

Idle == [op |-> "idle"]

\* ---------------------------------------------------------------- responses
\* What a handler answers: the HTTP status and the error text (NULL: none).
Response(status, error) == [status |-> status, error |-> error]

Refused(r) == r.status >= 400

\* log_activity: one audit row, committed before the handler returns.
AuditLog(u, action, resource_type, resource_id, details) ==
    [user_id |-> u, action |-> action, resource_type |-> resource_type,
     resource_id |-> resource_id, details |-> details, success |-> TRUE]

log_activity(u, action, details, resource_type, resource_id) ==
    audit_logs' = Append(audit_logs,
                         AuditLog(u, action, resource_type, resource_id, details))

\* log_activity when its add or commit raises: the except branch prints,
\* rolls the session back and returns; the caller goes on to answer.
log_activity_raises == UNCHANGED audit_logs

\* ---------------------------------------------------------- version strings
\* A version string is the sequence of its dot-separated parts: a numeric
\* part is that number, a part int() rejects is a negative number.
InitialVersion == <<1, 0, 0>>

\* major, minor, patch = version.split('.'); f"{major}.{int(minor) + 1}.0",
\* and on any exception f"{version}.1".
next_version(version) ==
    IF Len(version) = 3 /\ version[2] >= 0
    THEN <<version[1], version[2] + 1, 0>>
    ELSE Append(version, 1)

\* The try block succeeds: three parts, and int() takes the second.
version_parses(version) == Len(version) = 3 /\ version[2] >= 0

\* --------------------------------------------------------------- ORM classes
\* Column attributes of the mapped classes: the declarative constructor
\* raises TypeError for a keyword that is not one of them.
ModelVersionColumns ==
    {"id", "model_id", "version", "configuration", "changelog", "is_active",
     "created_by", "created_at", "model"}

PersonaVersionColumns ==
    {"id", "persona_id", "version_number", "system_prompt",
     "user_prompt_template", "input_schema", "output_schema", "variables",
     "change_summary", "created_by", "created_at", "persona",
     "created_by_user"}

\* Keywords the routes pass to ModelVersion(...) and PersonaVersion(...).
ModelVersionKwargs ==
    {"model_id", "version", "configuration", "changelog", "is_active",
     "created_by"}

PersonaVersionKwargs ==
    {"persona_id", "version", "system_prompt", "user_prompt_template",
     "input_schema", "output_schema", "changelog", "is_active", "created_by"}

constructs(kwargs, columns) == kwargs \subseteq columns

\* ------------------------------------------------------------------ queries
VersionsOf(rows, key, id) == SelectSeq(rows, LAMBDA v : v[key] = id)

\* .order_by(created_at.desc()).first(): <<the newest row>>, <<>> when none.
latest_version(rows, key, id) ==
    LET vs == VersionsOf(rows, key, id)
    IN  IF Len(vs) = 0 THEN <<>> ELSE <<vs[Len(vs)]>>

ActiveVersions(rows, key, id) ==
    SelectSeq(rows, LAMBDA v : v[key] = id /\ v.is_active)

\* Row `row` with the columns in `dirty` set from `data` (the ORM writes only
\* the attributes the request assigned).
Overlay(row, dirty, data) ==
    [f \in DOMAIN row |-> IF f \in dirty THEN data[f] ELSE row[f]]

Range(s) == {s[i] : i \in DOMAIN s}

\* Deactivate that leaves the previous version active.
DeactivateNone(rows, vid) == rows

\* UPDATE ... SET is_active = false WHERE id = vid
Deactivate(rows, vid) ==
    [i \in DOMAIN rows |->
        IF rows[i].id = vid THEN [rows[i] EXCEPT !.is_active = FALSE]
        ELSE rows[i]]


\* ============================================================ routes/models.py
ModelNames == {"a", "b"}

\* Request bodies of POST /models: name, provider and, in some, temperature;
\* the other required keys are present.
CreateModelBodies ==
    {[name |-> n, provider |-> p, temperature |-> "0.7"] :
        n \in ModelNames, p \in {"azure_openai", "openai"}}
    \cup {[name |-> n, provider |-> p] :
        n \in ModelNames, p \in {"azure_openai", "anthropic"}}

\* llm_service.validate_model_config: "valid", "invalid", or "raise" for a
\* provider other than azure_openai.  float(None) is an error, and the
\* config handed over always has the key temperature.
validate_model_config(provider, config) ==
    IF provider = "azure_openai"
    THEN IF config.temperature = NULL THEN "invalid" ELSE "valid"
    ELSE "raise"

\* The configuration snapshot create_model stores in the first version.
model_config(data) == [temperature |-> Get(data, "temperature")]

\* The configuration snapshot update_model stores in a new version.
version_configuration(row) == [temperature |-> row.temperature]

NewModel(u, data) ==
    [name |-> data.name,
     provider |-> data.provider,
     temperature |-> IF "temperature" \in DOMAIN data THEN data.temperature
                     ELSE DefaultTemperature,
     description |-> NULL,
     is_active |-> TRUE,
     is_approved |-> has_role(u, "Admin"),
     created_by |-> u]

ModelVersion(id, model_id, version, configuration, changelog, u) ==
    [id |-> id, model_id |-> model_id, version |-> version,
     configuration |-> configuration, changelog |-> changelog,
     is_active |-> TRUE, created_by |-> u]

\* POST /models: the response, from the decorator to the final return.
create_model_response(u, data) ==
    IF ~require_role(u, {"Admin", "Developer"})
    THEN Response(403, "Insufficient permissions")
    ELSE IF \E m \in DOMAIN models : models[m].name = data.name
    THEN Response(400, "Model with this name already exists")
    ELSE IF /\ data.provider \in {"azure_openai", "openai"}
            /\ validate_model_config(data.provider, model_config(data)) = "raise"
    THEN Response(500, "Failed to create model")
    ELSE IF /\ data.provider \in {"azure_openai", "openai"}
            /\ validate_model_config(data.provider, model_config(data)) = "invalid"
    THEN Response(400, "Invalid model configuration")
    ELSE IF ~constructs(ModelVersionKwargs, ModelVersionColumns)
    THEN Response(500, "Failed to create model")
    ELSE Response(201, NULL)

create_model(u, data) ==
    IF Refused(create_model_response(u, data))
    THEN UNCHANGED db
    ELSE /\ model_seq <= MaxModels
         /\ Len(audit_logs) < MaxAudit
         /\ models' = [m \in DOMAIN models \cup {model_seq} |->
                          IF m = model_seq THEN NewModel(u, data) ELSE models[m]]
         /\ model_versions' =
               Append(model_versions,
                      ModelVersion(version_seq, model_seq, InitialVersion,
                                   model_config(data), <<"Initial version">>, u))
         /\ model_seq' = model_seq + 1
         /\ version_seq' = version_seq + 1
         /\ log_activity(u, "model_created", <<>>, "model", model_seq)
         /\ UNCHANGED <<personas, persona_versions, persona_seq, pversion_seq, orchestration>>

\* Request bodies of PUT /models/<id>.
UpdateModelBodies ==
    { EmptyBody,
      [temperature |-> "0.7"],
      [temperature |-> "0.3"],
      [description |-> "d"],
      [is_approved |-> TRUE],
      [is_approved |-> FALSE],
      [description |-> "d", is_approved |-> TRUE],
      [description |-> "d", temperature |-> "0.3", is_approved |-> FALSE] }

\* updatable_fields, in the order the handler walks them.
ModelUpdatableFields == <<"name", "description", "temperature">>
ModelStatusFields == <<"is_active", "is_approved">>

\* Every content field taken as significant.
ModelSignificantFieldsEveryField ==
    {"name", "description", "api_endpoint", "configuration", "max_tokens",
     "temperature"}

ModelSignificantFields == {"api_endpoint", "configuration", "max_tokens", "temperature"}

\* model_changes with the status fields open to every role.
model_changes_any_role(u, row, data) ==
    SelectSeq(ModelUpdatableFields,
              LAMBDA f : f \in DOMAIN data /\ row[f] # data[f])
    \o SelectSeq(ModelStatusFields,
                 LAMBDA f : f \in DOMAIN data /\ row[f] # data[f])

\* The keys of `changes`, in insertion order.
model_changes(u, row, data) ==
    SelectSeq(ModelUpdatableFields,
              LAMBDA f : f \in DOMAIN data /\ row[f] # data[f])
    \o (IF has_role(u, "Admin")
        THEN SelectSeq(ModelStatusFields,
                       LAMBDA f : f \in DOMAIN data /\ row[f] # data[f])
        ELSE <<>>)

Diff(row, data, changes) ==
    [i \in DOMAIN changes |->
        [field |-> changes[i], old |-> row[changes[i]], new |-> data[changes[i]]]]

\* PUT /models/<id>: what the handler answers from what it reads; status 200
\* with no error is the answer it gives once its commit has gone through.
update_model_response(u, model_id, data) ==
    IF ~require_role(u, {"Admin", "Developer"})
    THEN Response(403, "Insufficient permissions")
    ELSE IF model_id \notin DOMAIN models
    THEN Response(500, "Failed to update model")
    ELSE IF ~has_role(u, "Admin") /\ models[model_id].created_by # u
    THEN Response(403, "Access denied")
    ELSE IF data = EmptyBody
    THEN Response(400, "Request data is required")
    ELSE IF /\ "name" \in DOMAIN data /\ data.name # models[model_id].name
            /\ \E m \in DOMAIN models : models[m].name = data.name
    THEN Response(400, "Model with this name already exists")
    ELSE IF model_changes(u, models[model_id], data) = <<>>
    THEN Response(200, "No changes detected")
    ELSE IF /\ Range(model_changes(u, models[model_id], data))
                  \cap ModelSignificantFields # {}
            /\ ~constructs(ModelVersionKwargs, ModelVersionColumns)
    THEN Response(500, "Failed to update model")
    ELSE Response(200, NULL)

\* The writes update_model has pending when it reaches db.session.commit():
\* the assigned columns, the version row it read as newest and the version
\* row it built.
update_model_read(u, model_id, data) ==
    LET row == models[model_id]
        changes == model_changes(u, row, data)
        dirty == Range(changes)
        latest == latest_version(model_versions, "model_id", model_id)
        significant == dirty \cap ModelSignificantFields # {}
    IN  [op |-> "update_model", user |-> u, rid |-> model_id,
         data |-> data, dirty |-> dirty,
         details |-> Diff(row, data, changes),
         significant |-> significant,
         deactivate |-> IF significant /\ latest # <<>> THEN latest[1].id ELSE 0,
         version |-> IF latest # <<>> THEN next_version(latest[1].version)
                     ELSE InitialVersion,
         configuration |-> version_configuration(Overlay(row, dirty, data)),
         changelog |-> <<"Updated">> \o changes]

\* The answer at commit: the UPDATE of a row that is gone raises, and the
\* handler rolls back and answers 500.
update_model_commit_response(t) ==
    IF t.rid \notin DOMAIN models
    THEN Response(500, "Failed to update model")
    ELSE Response(200, NULL)

\* update_model sending a model back to unapproved whenever it writes a new
\* version.
update_model_flush_unapproves(t) ==
    /\ models' = [models EXCEPT ![t.rid] =
                     [Overlay(@, t.dirty, t.data) EXCEPT
                         !.is_approved = IF t.significant THEN FALSE ELSE @]]
    /\ IF t.significant
       THEN /\ model_versions' =
                 Append(Deactivate(model_versions, t.deactivate),
                        ModelVersion(version_seq, t.rid, t.version,
                                     t.configuration, t.changelog, t.user))
            /\ version_seq' = version_seq + 1
       ELSE UNCHANGED <<model_versions, version_seq>>
    /\ UNCHANGED <<personas, persona_versions, model_seq, persona_seq,
                   pversion_seq, orchestration>>

\* A commit of update_model that makes the older versions of the model
\* active again when it deactivates the newest.
update_model_flush_reactivates(t) ==
    /\ models' = [models EXCEPT ![t.rid] = Overlay(@, t.dirty, t.data)]
    /\ IF t.significant
       THEN /\ model_versions' =
                 Append([i \in DOMAIN model_versions |->
                            IF model_versions[i].model_id = t.rid
                            THEN [model_versions[i] EXCEPT
                                     !.is_active = (model_versions[i].id # t.deactivate)]
                            ELSE model_versions[i]],
                        ModelVersion(version_seq, t.rid, t.version,
                                     t.configuration, t.changelog, t.user))
            /\ version_seq' = version_seq + 1
       ELSE UNCHANGED <<model_versions, version_seq>>
    /\ UNCHANGED <<personas, persona_versions, model_seq, persona_seq,
                   pversion_seq, orchestration>>

\* What db.session.commit() of update_model writes.
update_model_flush(t) ==
    /\ models' = [models EXCEPT ![t.rid] = Overlay(@, t.dirty, t.data)]
    /\ IF t.significant
       THEN /\ model_versions' =
                 Append(Deactivate(model_versions, t.deactivate),
                        ModelVersion(version_seq, t.rid, t.version,
                                     t.configuration, t.changelog, t.user))
            /\ version_seq' = version_seq + 1
       ELSE UNCHANGED <<model_versions, version_seq>>
    /\ UNCHANGED <<personas, persona_versions, model_seq, persona_seq,
                   pversion_seq, orchestration>>

\* A commit of update_model that, when the UPDATE of the model row fails,
\* keeps the version rows it had written instead of rolling them back.
update_model_commit_partial(t) ==
    IF Refused(update_model_commit_response(t))
    THEN /\ model_versions' =
              IF t.significant
              THEN Append(Deactivate(model_versions, t.deactivate),
                          ModelVersion(version_seq, t.rid, t.version,
                                       t.configuration, t.changelog, t.user))
              ELSE model_versions
         /\ version_seq' = IF t.significant THEN version_seq + 1 ELSE version_seq
         /\ UNCHANGED <<models, personas, persona_versions, model_seq, persona_seq,
                        pversion_seq, audit_logs, orchestration>>
    ELSE /\ Len(audit_logs) < MaxAudit
         /\ update_model_flush(t)
         /\ log_activity(t.user, "model_updated", t.details, "model", t.rid)

\* db.session.commit() of update_model, then log_activity.
update_model_commit(t) ==
    IF Refused(update_model_commit_response(t))
    THEN UNCHANGED db
    ELSE /\ Len(audit_logs) < MaxAudit
         /\ update_model_flush(t)
         /\ log_activity(t.user, "model_updated", t.details, "model", t.rid)

\* update_model writing before it looks at the decorator's and the ownership
\* check's verdict.
update_model_unguarded(u, model_id, data) ==
    IF \/ model_id \notin DOMAIN models
       \/ data = EmptyBody
       \/ model_changes(u, models[model_id], data) = <<>>
    THEN UNCHANGED db
    ELSE update_model_commit(update_model_read(u, model_id, data))

\* One request served without overlap.
update_model(u, model_id, data) ==
    IF update_model_response(u, model_id, data) # Response(200, NULL)
    THEN UNCHANGED db
    ELSE update_model_commit(update_model_read(u, model_id, data))

delete_model_response(u, model_id) ==
    IF ~require_role(u, {"Admin", "Developer"})
    THEN Response(403, "Insufficient permissions")
    ELSE IF model_id \notin DOMAIN models
    THEN Response(500, "Failed to delete model")
    ELSE IF ~has_role(u, "Admin") /\ models[model_id].created_by # u
    THEN Response(403, "Access denied")
    ELSE IF \E a \in DOMAIN agents :
               agents[a].model_id = model_id /\ agents[a].is_active
    THEN Response(400, "Cannot delete model")
    ELSE Response(200, NULL)

\* The writes of an accepted delete_model: version rows, the row, the audit
\* row.
delete_model_commit(u, model_id) ==
    /\ model_versions' =
          SelectSeq(model_versions, LAMBDA v : v.model_id # model_id)
    /\ models' = [m \in DOMAIN models \ {model_id} |-> models[m]]
    /\ log_activity(u, "model_deleted", <<>>, "model", model_id)
    /\ UNCHANGED <<personas, persona_versions, model_seq, persona_seq,
                   version_seq, pversion_seq, orchestration>>

delete_model(u, model_id) ==
    IF Refused(delete_model_response(u, model_id))
    THEN UNCHANGED db
    ELSE /\ Len(audit_logs) < MaxAudit
         /\ delete_model_commit(u, model_id)

\* approve_model without the already-approved refusal.
approve_model_response_repeatable(u, model_id) ==
    IF ~require_role(u, {"Admin"})
    THEN Response(403, "Insufficient permissions")
    ELSE IF model_id \notin DOMAIN models
    THEN Response(500, "Failed to approve model")
    ELSE Response(200, NULL)

approve_model_response(u, model_id) ==
    IF ~require_role(u, {"Admin"})
    THEN Response(403, "Insufficient permissions")
    ELSE IF model_id \notin DOMAIN models
    THEN Response(500, "Failed to approve model")
    ELSE IF models[model_id].is_approved
    THEN Response(400, "Model is already approved")
    ELSE Response(200, NULL)

\* approve_model that records the approver as the owner of the model.
approve_model_takes_ownership(u, model_id) ==
    IF Refused(approve_model_response(u, model_id))
    THEN UNCHANGED db
    ELSE /\ Len(audit_logs) < MaxAudit
         /\ models' = [models EXCEPT ![model_id].is_approved = TRUE,
                                     ![model_id].created_by = u]
         /\ log_activity(u, "model_approved", <<>>, "model", model_id)
         /\ UNCHANGED <<model_versions, personas, persona_versions, model_seq,
                        persona_seq, version_seq, pversion_seq, orchestration>>

approve_model(u, model_id) ==
    IF Refused(approve_model_response(u, model_id))
    THEN UNCHANGED db
    ELSE /\ Len(audit_logs) < MaxAudit
         /\ models' = [models EXCEPT ![model_id].is_approved = TRUE]
         /\ log_activity(u, "model_approved", <<>>, "model", model_id)
         /\ UNCHANGED <<model_versions, personas, persona_versions, model_seq,
                        persona_seq, version_seq, pversion_seq, orchestration>>

\* PUT /models/<id> served while the audit table cannot be written: the
\* handler's commit goes through, log_activity raises inside and swallows
\* it, and the handler answers 200 'Model updated successfully'.
update_model_audit_failure(u, model_id, data) ==
    IF update_model_response(u, model_id, data) # Response(200, NULL)
    THEN UNCHANGED db
    ELSE /\ version_seq <= MaxVersions
         /\ update_model_flush(update_model_read(u, model_id, data))
         /\ log_activity_raises

\* POST /models/<id>/approve served while the audit table cannot be written.
approve_model_audit_failure(u, model_id) ==
    IF Refused(approve_model_response(u, model_id))
    THEN UNCHANGED db
    ELSE /\ models' = [models EXCEPT ![model_id].is_approved = TRUE]
         /\ log_activity_raises
         /\ UNCHANGED <<model_versions, personas, persona_versions, model_seq,
                        persona_seq, version_seq, pversion_seq, orchestration>>

\* GET /models/<id>
get_model_response(u, model_id) ==
    IF model_id \notin DOMAIN models
    THEN Response(500, "Failed to fetch model")
    ELSE IF /\ ~has_role(u, "Admin")
            /\ ~models[model_id].is_approved
            /\ models[model_id].created_by # u
    THEN Response(403, "Access denied")
    ELSE Response(200, NULL)

get_model(u, model_id) == UNCHANGED db

\* The versions GET /models/<id> lists, newest first.
Reverse(s) == [i \in DOMAIN s |-> s[Len(s) + 1 - i]]
get_model_versions(model_id) ==
    Reverse(VersionsOf(model_versions, "model_id", model_id))

\* ========================================================== routes/personas.py
PersonaNames == {"a", "b"}

\* Request bodies of POST /personas; name and system_prompt are required.
CreatePersonaBodies ==
    {[name |-> n, system_prompt |-> "X"] : n \in PersonaNames}
    \cup {[name |-> "b"]}

\* JSON documents: None, and what json.loads returns for the texts a request
\* sends.  A text that is no JSON document raises JSONDecodeError.
JsonNone == <<>>
json_decodes(s) == s \in {"{}", "[]"}
json_loads(s) == IF s = "{}" THEN <<"object">> ELSE <<"array">>

NewPersona(u, data) ==
    [name |-> data.name,
     description |-> Get(data, "description"),
     system_prompt |-> data.system_prompt,
     input_schema |-> JsonNone,
     visibility |-> IF "visibility" \in DOMAIN data THEN data.visibility
                    ELSE "private",
     is_approved |-> has_role(u, "Admin"),
     created_by |-> u]

PersonaVersion(id, persona_id, version, system_prompt, changelog, u) ==
    [id |-> id, persona_id |-> persona_id, version |-> version,
     system_prompt |-> system_prompt, changelog |-> changelog,
     is_active |-> TRUE, created_by |-> u]

\* POST /personas.  PersonaVersion(version=..., changelog=..., is_active=...)
\* raises when the mapped class has no such attribute; the handler rolls
\* back and answers 500.
create_persona_response(u, data) ==
    IF ~require_role(u, {"Admin", "Developer", "Business User"})
    THEN Response(403, "Insufficient permissions")
    ELSE IF \E f \in {"name", "system_prompt"} : f \notin DOMAIN data
    THEN Response(400, "field is required")
    ELSE IF \E p \in DOMAIN personas :
               personas[p].name = data.name /\ personas[p].created_by = u
    THEN Response(400, "You already have a persona with this name")
    ELSE IF ~constructs(PersonaVersionKwargs, PersonaVersionColumns)
    THEN Response(500, "Failed to create persona")
    ELSE Response(201, NULL)

create_persona(u, data) ==
    IF Refused(create_persona_response(u, data))
    THEN UNCHANGED db
    ELSE /\ persona_seq <= MaxPersonas
         /\ Len(audit_logs) < MaxAudit
         /\ personas' = [p \in DOMAIN personas \cup {persona_seq} |->
                            IF p = persona_seq THEN NewPersona(u, data)
                            ELSE personas[p]]
         /\ persona_versions' =
               Append(persona_versions,
                      PersonaVersion(pversion_seq, persona_seq, InitialVersion,
                                     data.system_prompt, <<"Initial version">>, u))
         /\ persona_seq' = persona_seq + 1
         /\ pversion_seq' = pversion_seq + 1
         /\ log_activity(u, "persona_created", <<>>, "persona", persona_seq)
         /\ UNCHANGED <<models, model_versions, model_seq, version_seq, orchestration>>

\* Request bodies of POST /personas/<id>/duplicate.
DuplicatePersonaBodies == {EmptyBody, [name |-> "b"], [visibility |-> "public"]}

\* new_name: data.get('name', f"{original_persona.name} (Copy)").
duplicate_name(original, data) ==
    IF "name" \in DOMAIN data THEN data.name ELSE original.name \o " (Copy)"

\* The Persona row duplicate_persona builds.
NewDuplicate(u, original, data) ==
    [name |-> duplicate_name(original, data),
     description |-> IF "description" \in DOMAIN data THEN data.description
                     ELSE original.description,
     system_prompt |-> original.system_prompt,
     input_schema |-> original.input_schema,
     visibility |-> IF "visibility" \in DOMAIN data THEN data.visibility
                    ELSE "private",
     is_approved |-> FALSE,
     created_by |-> u]

\* POST /personas/<id>/duplicate.
duplicate_persona_response(u, persona_id, data) ==
    IF ~require_role(u, {"Admin", "Developer", "Business User"})
    THEN Response(403, "Insufficient permissions")
    ELSE IF persona_id \notin DOMAIN personas
    THEN Response(500, "Failed to duplicate persona")
    ELSE IF /\ ~has_role(u, "Admin")
            /\ ~personas[persona_id].is_approved
            /\ personas[persona_id].created_by # u
            /\ personas[persona_id].visibility = "private"
    THEN Response(403, "Access denied")
    ELSE IF \E p \in DOMAIN personas :
               /\ personas[p].name = duplicate_name(personas[persona_id], data)
               /\ personas[p].created_by = u
    THEN Response(400, "You already have a persona with this name")
    ELSE IF ~constructs(PersonaVersionKwargs, PersonaVersionColumns)
    THEN Response(500, "Failed to duplicate persona")
    ELSE Response(201, NULL)

duplicate_persona(u, persona_id, data) ==
    IF Refused(duplicate_persona_response(u, persona_id, data))
    THEN UNCHANGED db
    ELSE /\ persona_seq <= MaxPersonas
         /\ Len(audit_logs) < MaxAudit
         /\ personas' = [p \in DOMAIN personas \cup {persona_seq} |->
                            IF p = persona_seq
                            THEN NewDuplicate(u, personas[persona_id], data)
                            ELSE personas[p]]
         /\ persona_versions' =
               Append(persona_versions,
                      PersonaVersion(pversion_seq, persona_seq, InitialVersion,
                                     personas[persona_id].system_prompt,
                                     <<"Duplicated from", personas[persona_id].name>>,
                                     u))
         /\ persona_seq' = persona_seq + 1
         /\ pversion_seq' = pversion_seq + 1
         /\ log_activity(u, "persona_duplicated", <<>>, "persona", persona_seq)
         /\ UNCHANGED <<models, model_versions, model_seq, version_seq, orchestration>>

\* Request bodies of PUT /personas/<id>.
UpdatePersonaBodies ==
    { EmptyBody,
      [system_prompt |-> "Y"],
      [description |-> "d"],
      [name |-> "b"],
      [visibility |-> "private"],
      [visibility |-> "team"],
      [visibility |-> "public"],
      [is_approved |-> TRUE],
      [is_approved |-> FALSE],
      [input_schema |-> "{}"],
      [input_schema |-> "{bad"],
      [description |-> "d", input_schema |-> "{bad"] }

PersonaUpdatableFields ==
    <<"name", "description", "system_prompt", "input_schema", "visibility">>
PersonaJsonFields == {"input_schema", "output_schema", "variables"}
PersonaStatusFields == <<"is_approved">>
PersonaSignificantFields ==
    {"system_prompt", "user_prompt_template", "input_schema", "output_schema"}

\* new_value of the loop over updatable_fields: a JSON field sent as a
\* non-empty string is parsed.
persona_value(data, f) ==
    IF f \in PersonaJsonFields /\ data[f] # "" THEN json_loads(data[f]) ELSE data[f]

persona_data(data) == [f \in DOMAIN data |-> persona_value(data, f)]

\* A JSON field of the body that json.loads rejects.
persona_invalid_json(data) ==
    \E f \in PersonaJsonFields \cap DOMAIN data :
        data[f] # "" /\ ~json_decodes(data[f])

persona_changes(u, row, data) ==
    SelectSeq(PersonaUpdatableFields,
              LAMBDA f : f \in DOMAIN data /\ row[f] # persona_value(data, f))
    \o (IF has_role(u, "Admin")
        THEN SelectSeq(PersonaStatusFields,
                       LAMBDA f : f \in DOMAIN data /\ row[f] # data[f])
        ELSE <<>>)

\* update_persona without the ownership check.
update_persona_response_any_owner(u, persona_id, data) ==
    IF ~require_role(u, {"Admin", "Developer", "Business User"})
    THEN Response(403, "Insufficient permissions")
    ELSE IF persona_id \notin DOMAIN personas
    THEN Response(500, "Failed to update persona")
    ELSE IF data = EmptyBody
    THEN Response(400, "Request data is required")
    ELSE IF persona_invalid_json(data)
    THEN Response(400, "Invalid format")
    ELSE IF persona_changes(u, personas[persona_id], data) = <<>>
    THEN Response(200, "No changes detected")
    ELSE Response(200, NULL)

\* PUT /personas/<id>: what the handler answers from what it reads.  With a
\* significant change, reading latest_version.version and building
\* PersonaVersion(version=...) raise when the mapped class has no such
\* attribute.
update_persona_response(u, persona_id, data) ==
    IF ~require_role(u, {"Admin", "Developer", "Business User"})
    THEN Response(403, "Insufficient permissions")
    ELSE IF persona_id \notin DOMAIN personas
    THEN Response(500, "Failed to update persona")
    ELSE IF ~has_role(u, "Admin") /\ personas[persona_id].created_by # u
    THEN Response(403, "Access denied")
    ELSE IF data = EmptyBody
    THEN Response(400, "Request data is required")
    ELSE IF /\ "name" \in DOMAIN data /\ data.name # personas[persona_id].name
            /\ \E p \in DOMAIN personas :
                  personas[p].name = data.name /\ personas[p].created_by = u
    THEN Response(400, "You already have a persona with this name")
    ELSE IF persona_invalid_json(data)
    THEN Response(400, "Invalid format")
    ELSE IF persona_changes(u, personas[persona_id], data) = <<>>
    THEN Response(200, "No changes detected")
    ELSE IF /\ Range(persona_changes(u, personas[persona_id], data))
                  \cap PersonaSignificantFields # {}
            /\ \/ /\ latest_version(persona_versions, "persona_id", persona_id) # <<>>
                  /\ "version" \notin PersonaVersionColumns
               \/ ~constructs(PersonaVersionKwargs, PersonaVersionColumns)
    THEN Response(500, "Failed to update persona")
    ELSE Response(200, NULL)

\* The writes update_persona has pending when it reaches commit.
update_persona_read(u, persona_id, data) ==
    LET row == personas[persona_id]
        changes == persona_changes(u, row, data)
        dirty == Range(changes)
        latest == latest_version(persona_versions, "persona_id", persona_id)
        significant == dirty \cap PersonaSignificantFields # {}
    IN  [op |-> "update_persona", user |-> u, rid |-> persona_id,
         data |-> persona_data(data), dirty |-> dirty,
         details |-> Diff(row, persona_data(data), changes),
         significant |-> significant,
         deactivate |-> IF significant /\ latest # <<>> THEN latest[1].id ELSE 0,
         version |-> IF latest # <<>> THEN next_version(latest[1].version)
                     ELSE InitialVersion,
         system_prompt |-> Overlay(row, dirty, persona_data(data)).system_prompt,
         changelog |-> <<"Updated">> \o
                       SelectSeq(changes,
                                 LAMBDA f : f \in PersonaSignificantFields)]

update_persona_commit_response(t) ==
    IF t.rid \notin DOMAIN personas
    THEN Response(500, "Failed to update persona")
    ELSE Response(200, NULL)

update_persona_commit(t) ==
    IF Refused(update_persona_commit_response(t))
    THEN UNCHANGED db
    ELSE /\ Len(audit_logs) < MaxAudit
         /\ personas' = [personas EXCEPT ![t.rid] = Overlay(@, t.dirty, t.data)]
         /\ IF t.significant
            THEN /\ persona_versions' =
                      Append(Deactivate(persona_versions, t.deactivate),
                             PersonaVersion(pversion_seq, t.rid, t.version,
                                            t.system_prompt, t.changelog, t.user))
                 /\ pversion_seq' = pversion_seq + 1
            ELSE UNCHANGED <<persona_versions, pversion_seq>>
         /\ log_activity(t.user, "persona_updated", t.details, "persona", t.rid)
         /\ UNCHANGED <<models, model_versions, model_seq, persona_seq,
                        version_seq, orchestration>>

\* update_persona whose validation error leaves the fields it had already
\* assigned (those the loop walks before input_schema) to be committed.
update_persona_keeps_assigned(u, persona_id, data) ==
    IF update_persona_response(u, persona_id, data) = Response(400, "Invalid format")
    THEN /\ personas' =
              [personas EXCEPT ![persona_id] =
                  Overlay(@, DOMAIN data \cap {"name", "description", "system_prompt"},
                          data)]
         /\ UNCHANGED <<models, model_versions, persona_versions, model_seq,
                        persona_seq, version_seq, pversion_seq, audit_logs,
                        orchestration>>
    ELSE IF update_persona_response(u, persona_id, data) # Response(200, NULL)
    THEN UNCHANGED db
    ELSE update_persona_commit(update_persona_read(u, persona_id, data))

\* One request served without overlap.
update_persona(u, persona_id, data) ==
    IF update_persona_response(u, persona_id, data) # Response(200, NULL)
    THEN UNCHANGED db
    ELSE update_persona_commit(update_persona_read(u, persona_id, data))

delete_persona_response(u, persona_id) ==
    IF ~require_role(u, {"Admin", "Developer", "Business User"})
    THEN Response(403, "Insufficient permissions")
    ELSE IF persona_id \notin DOMAIN personas
    THEN Response(500, "Failed to delete persona")
    ELSE IF ~has_role(u, "Admin") /\ personas[persona_id].created_by # u
    THEN Response(403, "Access denied")
    ELSE IF \E a \in DOMAIN agents :
               agents[a].persona_id = persona_id /\ agents[a].is_active
    THEN Response(400, "Cannot delete persona")
    ELSE Response(200, NULL)

\* The writes of an accepted delete_persona.
delete_persona_commit(u, persona_id) ==
    /\ persona_versions' =
          SelectSeq(persona_versions, LAMBDA v : v.persona_id # persona_id)
    /\ personas' = [p \in DOMAIN personas \ {persona_id} |-> personas[p]]
    /\ log_activity(u, "persona_deleted", <<>>, "persona", persona_id)
    /\ UNCHANGED <<models, model_versions, model_seq, persona_seq,
                   version_seq, pversion_seq, orchestration>>

delete_persona(u, persona_id) ==
    IF Refused(delete_persona_response(u, persona_id))
    THEN UNCHANGED db
    ELSE /\ Len(audit_logs) < MaxAudit
         /\ delete_persona_commit(u, persona_id)

approve_persona_response(u, persona_id) ==
    IF ~require_role(u, {"Admin"})
    THEN Response(403, "Insufficient permissions")
    ELSE IF persona_id \notin DOMAIN personas
    THEN Response(500, "Failed to approve persona")
    ELSE IF personas[persona_id].is_approved
    THEN Response(400, "Persona is already approved")
    ELSE Response(200, NULL)

approve_persona(u, persona_id) ==
    IF Refused(approve_persona_response(u, persona_id))
    THEN UNCHANGED db
    ELSE /\ Len(audit_logs) < MaxAudit
         /\ personas' = [personas EXCEPT ![persona_id].is_approved = TRUE]
         /\ log_activity(u, "persona_approved", <<>>, "persona", persona_id)
         /\ UNCHANGED <<models, model_versions, persona_versions, model_seq,
                        persona_seq, version_seq, pversion_seq, orchestration>>

\* GET /personas/<id>; listing a version row reads version.version.
get_persona_response(u, persona_id) ==
    IF persona_id \notin DOMAIN personas
    THEN Response(500, "Failed to fetch persona")
    ELSE IF /\ ~has_role(u, "Admin")
            /\ ~personas[persona_id].is_approved
            /\ personas[persona_id].created_by # u
            /\ personas[persona_id].visibility = "private"
    THEN Response(403, "Access denied")
    ELSE IF /\ VersionsOf(persona_versions, "persona_id", persona_id) # <<>>
            /\ "version" \notin PersonaVersionColumns
    THEN Response(500, "Failed to fetch persona")
    ELSE Response(200, NULL)

get_persona(u, persona_id) == UNCHANGED db

\* ==================================================== services/auth_service.py
\* The ids of the rows the filtered query returns.
\* hasattr(model_class, column)
hasattr(row, column) == column \in DOMAIN row

\* The filter in which a Developer sees only the rows they own.
accessible_for_role_own_only(role, user_id, rows) ==
    IF role = "Admin" THEN DOMAIN rows
    ELSE IF role = "Business User"
    THEN {r \in DOMAIN rows :
             IF hasattr(rows[r], "is_approved") /\ hasattr(rows[r], "created_by")
             THEN rows[r].is_approved \/ rows[r].created_by = user_id
             ELSE hasattr(rows[r], "is_approved") => rows[r].is_approved}
    ELSE IF role = "Developer"
    THEN {r \in DOMAIN rows :
             hasattr(rows[r], "created_by") => rows[r].created_by = user_id}
    ELSE DOMAIN rows

\* The branches of get_user_accessible_resources, by the role of the user.
accessible_for_role(role, user_id, rows) ==
    IF role = "Admin" THEN DOMAIN rows
    ELSE IF role = "Business User"
    THEN {r \in DOMAIN rows :
             IF hasattr(rows[r], "is_approved") /\ hasattr(rows[r], "created_by")
             THEN rows[r].is_approved \/ rows[r].created_by = user_id
             ELSE hasattr(rows[r], "is_approved") => rows[r].is_approved}
    ELSE IF role = "Developer"
    THEN {r \in DOMAIN rows :
             hasattr(rows[r], "created_by")
             => (rows[r].created_by = user_id \/ rows[r].is_approved)}
    ELSE DOMAIN rows

get_user_accessible_resources(u, rows) ==
    accessible_for_role(role_name(u), u, rows)

\* GET /models and GET /personas
get_models(u) == UNCHANGED db
get_personas(u) == UNCHANGED db

\* =================================== routes/agents.py, workflows.py, tools.py
\* Request bodies of POST /agents.
CreateAgentBodies ==
    {[name |-> "g", model_id |-> m, persona_id |-> p] :
        m \in 1..MaxModels, p \in 1..MaxPersonas}
    \cup {[name |-> "g"]}

NewAgent(u, data) ==
    [name |-> data.name, model_id |-> data.model_id,
     persona_id |-> data.persona_id, is_active |-> TRUE,
     is_approved |-> has_role(u, "Admin"), created_by |-> u]

create_agent_response(u, data) ==
    IF ~require_role(u, {"Admin", "Developer", "Business User"})
    THEN Response(403, "Insufficient permissions")
    ELSE IF \E f \in {"name", "model_id", "persona_id"} : f \notin DOMAIN data
    THEN Response(400, "field is required")
    ELSE IF data.model_id \notin DOMAIN models
    THEN Response(404, "Model not found")
    ELSE IF ~has_role(u, "Admin") /\ ~models[data.model_id].is_approved
    THEN Response(403, "Model not approved for use")
    ELSE IF data.persona_id \notin DOMAIN personas
    THEN Response(404, "Persona not found")
    ELSE IF /\ ~has_role(u, "Admin")
            /\ ~personas[data.persona_id].is_approved
            /\ personas[data.persona_id].created_by # u
    THEN Response(403, "Persona not accessible")
    ELSE Response(201, NULL)

\* The writes of an accepted create_agent: the row, then the audit row.
create_agent_commit(u, data) ==
    /\ agent_seq <= MaxAgents
    /\ agents' = [a \in DOMAIN agents \cup {agent_seq} |->
                     IF a = agent_seq THEN NewAgent(u, data) ELSE agents[a]]
    /\ agent_seq' = agent_seq + 1
    /\ log_activity(u, "agent_created", <<>>, "agent", agent_seq)
    /\ UNCHANGED <<catalog, workflows, tools, workflow_seq, tool_seq>>

create_agent(u, data) ==
    IF Refused(create_agent_response(u, data))
    THEN UNCHANGED db
    ELSE /\ Len(audit_logs) < MaxAudit
         /\ create_agent_commit(u, data)

\* Request bodies of POST /agents/<id>/approve (and of the workflow and tool
\* routes); data.get('approve', True).
ApproveBodies == {EmptyBody, [approve |-> TRUE], [approve |-> FALSE], [comment |-> "c"]}

approve_flag(data) == IF "approve" \in DOMAIN data THEN data.approve ELSE TRUE

approve_agent_response(u, agent_id, data) ==
    IF ~require_role(u, {"Admin"})
    THEN Response(403, "Insufficient permissions")
    ELSE IF agent_id \notin DOMAIN agents
    THEN Response(500, "Failed to process agent approval")
    ELSE IF data = EmptyBody
    THEN Response(400, "Request data is required")
    ELSE Response(200, NULL)

approve_agent(u, agent_id, data) ==
    IF Refused(approve_agent_response(u, agent_id, data))
    THEN UNCHANGED db
    ELSE /\ Len(audit_logs) < MaxAudit
         /\ agents' = [agents EXCEPT ![agent_id].is_approved = approve_flag(data)]
         /\ log_activity(u, IF approve_flag(data) THEN "agent_approved"
                            ELSE "agent_rejected", <<>>, "agent", agent_id)
         /\ UNCHANGED <<catalog, workflows, tools, agent_seq, workflow_seq, tool_seq>>

\* get_agent with no exemption for Admin.
get_agent_response_no_exemption(u, agent_id) ==
    IF agent_id \notin DOMAIN agents
    THEN Response(500, "Failed to fetch agent")
    ELSE IF ~agents[agent_id].is_approved /\ agents[agent_id].created_by # u
    THEN Response(403, "Access denied")
    ELSE Response(200, NULL)

\* GET /agents/<id>
get_agent_response(u, agent_id) ==
    IF agent_id \notin DOMAIN agents
    THEN Response(500, "Failed to fetch agent")
    ELSE IF /\ ~has_role(u, "Admin")
            /\ ~agents[agent_id].is_approved
            /\ agents[agent_id].created_by # u
    THEN Response(403, "Access denied")
    ELSE Response(200, NULL)

get_agent(u, agent_id) == UNCHANGED db
get_agents(u) == UNCHANGED db

\* Request bodies of POST /workflows.
CreateWorkflowBodies == {[name |-> "w", workflow_definition |-> "graph"], [name |-> "w"]}

NewWorkflow(u, data) ==
    [name |-> data.name, is_active |-> TRUE,
     is_approved |-> has_role(u, "Admin"), created_by |-> u]

create_workflow_response(u, data) ==
    IF ~require_role(u, {"Admin", "Developer", "Business User"})
    THEN Response(403, "Insufficient permissions")
    ELSE IF \E f \in {"name", "workflow_definition"} : f \notin DOMAIN data
    THEN Response(400, "field is required")
    ELSE Response(201, NULL)

create_workflow(u, data) ==
    IF Refused(create_workflow_response(u, data))
    THEN UNCHANGED db
    ELSE /\ workflow_seq <= MaxWorkflows
         /\ Len(audit_logs) < MaxAudit
         /\ workflows' = [f \in DOMAIN workflows \cup {workflow_seq} |->
                             IF f = workflow_seq THEN NewWorkflow(u, data)
                             ELSE workflows[f]]
         /\ workflow_seq' = workflow_seq + 1
         /\ log_activity(u, "workflow_created", <<>>, "workflow", workflow_seq)
         /\ UNCHANGED <<catalog, agents, tools, agent_seq, tool_seq>>

approve_workflow_response(u, workflow_id, data) ==
    IF ~require_role(u, {"Admin"})
    THEN Response(403, "Insufficient permissions")
    ELSE IF workflow_id \notin DOMAIN workflows
    THEN Response(500, "Failed to process workflow approval")
    ELSE IF data = EmptyBody
    THEN Response(400, "Request data is required")
    ELSE Response(200, NULL)

approve_workflow(u, workflow_id, data) ==
    IF Refused(approve_workflow_response(u, workflow_id, data))
    THEN UNCHANGED db
    ELSE /\ Len(audit_logs) < MaxAudit
         /\ workflows' = [workflows EXCEPT
                             ![workflow_id].is_approved = approve_flag(data)]
         /\ log_activity(u, IF approve_flag(data) THEN "workflow_approved"
                            ELSE "workflow_rejected", <<>>, "workflow", workflow_id)
         /\ UNCHANGED <<catalog, agents, tools, agent_seq, workflow_seq, tool_seq>>

\* GET /workflows/<id>
get_workflow_response(u, workflow_id) ==
    IF workflow_id \notin DOMAIN workflows
    THEN Response(500, "Failed to fetch workflow")
    ELSE IF /\ ~has_role(u, "Admin")
            /\ ~workflows[workflow_id].is_approved
            /\ workflows[workflow_id].created_by # u
    THEN Response(403, "Access denied")
    ELSE Response(200, NULL)

get_workflow(u, workflow_id) == UNCHANGED db
get_workflows(u) == UNCHANGED db

\* Request bodies of POST /tools.
CreateToolBodies ==
    {[name |-> "t", tool_type |-> "function", function_schema |-> "schema"],
     [name |-> "t", tool_type |-> "plugin", function_schema |-> "schema"]}

NewTool(u, data) ==
    [name |-> data.name, is_active |-> TRUE,
     is_approved |-> has_role(u, "Admin"), created_by |-> u]

create_tool_response(u, data) ==
    IF ~require_role(u, {"Admin", "Developer"})
    THEN Response(403, "Insufficient permissions")
    ELSE IF \E f \in {"name", "tool_type", "function_schema"} : f \notin DOMAIN data
    THEN Response(400, "field is required")
    ELSE IF data.tool_type \notin {"function", "mcp_server", "api"}
    THEN Response(400, "tool_type must be one of")
    ELSE Response(201, NULL)

create_tool(u, data) ==
    IF Refused(create_tool_response(u, data))
    THEN UNCHANGED db
    ELSE /\ tool_seq <= MaxTools
         /\ Len(audit_logs) < MaxAudit
         /\ tools' = [t \in DOMAIN tools \cup {tool_seq} |->
                         IF t = tool_seq THEN NewTool(u, data) ELSE tools[t]]
         /\ tool_seq' = tool_seq + 1
         /\ log_activity(u, "tool_created", <<>>, "tool", tool_seq)
         /\ UNCHANGED <<catalog, agents, workflows, agent_seq, workflow_seq>>

\* approve_tool that refuses to approve a tool twice.
approve_tool_response_once(u, tool_id, data) ==
    IF ~require_role(u, {"Admin"})
    THEN Response(403, "Insufficient permissions")
    ELSE IF tool_id \notin DOMAIN tools
    THEN Response(500, "Failed to process tool approval")
    ELSE IF data = EmptyBody
    THEN Response(400, "Request data is required")
    ELSE IF approve_flag(data) /\ tools[tool_id].is_approved
    THEN Response(400, "Tool is already approved")
    ELSE Response(200, NULL)

approve_tool_response(u, tool_id, data) ==
    IF ~require_role(u, {"Admin"})
    THEN Response(403, "Insufficient permissions")
    ELSE IF tool_id \notin DOMAIN tools
    THEN Response(500, "Failed to process tool approval")
    ELSE IF data = EmptyBody
    THEN Response(400, "Request data is required")
    ELSE Response(200, NULL)

approve_tool(u, tool_id, data) ==
    IF Refused(approve_tool_response(u, tool_id, data))
    THEN UNCHANGED db
    ELSE /\ Len(audit_logs) < MaxAudit
         /\ tools' = [tools EXCEPT ![tool_id].is_approved = approve_flag(data)]
         /\ log_activity(u, IF approve_flag(data) THEN "tool_approved"
                            ELSE "tool_rejected", <<>>, "tool", tool_id)
         /\ UNCHANGED <<catalog, agents, workflows, agent_seq, workflow_seq, tool_seq>>

\* GET /tools/<id>
get_tool_response(u, tool_id) ==
    IF tool_id \notin DOMAIN tools
    THEN Response(500, "Failed to fetch tool")
    ELSE IF /\ ~has_role(u, "Admin")
            /\ ~tools[tool_id].is_approved
            /\ tools[tool_id].created_by # u
    THEN Response(403, "Access denied")
    ELSE Response(200, NULL)

get_tool(u, tool_id) == UNCHANGED db
get_tools(u) == UNCHANGED db

\* ------------------------------------------- routes/agents.py: PUT and DELETE
\* Request bodies of PUT /agents/<id>.
UpdateAgentBodies ==
    {EmptyBody, [name |-> "h"], [is_active |-> TRUE], [is_active |-> FALSE]}
    \cup {[model_id |-> m] : m \in 1..MaxModels}
    \cup {[persona_id |-> p] : p \in 1..MaxPersonas}

\* The fields update_agent assigns, in the order it looks at them.
AgentUpdatableFields == <<"name", "model_id", "persona_id", "is_active">>

\* changes: the fields whose new value differs; is_active only for an Admin.
agent_changes(u, agent, data) ==
    {f \in Range(AgentUpdatableFields) :
        /\ f \in DOMAIN data
        /\ data[f] # agent[f]
        /\ f = "is_active" => has_role(u, "Admin")}

update_agent_response(u, agent_id, data) ==
    IF ~require_role(u, {"Admin", "Developer"})
    THEN Response(403, "Insufficient permissions")
    ELSE IF agent_id \notin DOMAIN agents
    THEN Response(500, "Failed to update agent")
    ELSE IF ~has_role(u, "Admin") /\ agents[agent_id].created_by # u
    THEN Response(403, "Access denied")
    ELSE IF data = EmptyBody
    THEN Response(400, "Request data is required")
    ELSE IF /\ "model_id" \in DOMAIN data
            /\ data.model_id # agents[agent_id].model_id
            /\ data.model_id \notin DOMAIN models
    THEN Response(404, "Model not found")
    ELSE IF /\ "model_id" \in DOMAIN data
            /\ data.model_id # agents[agent_id].model_id
            /\ ~has_role(u, "Admin")
            /\ ~models[data.model_id].is_approved
    THEN Response(403, "Model not approved for use")
    ELSE IF /\ "persona_id" \in DOMAIN data
            /\ data.persona_id # agents[agent_id].persona_id
            /\ data.persona_id \notin DOMAIN personas
    THEN Response(404, "Persona not found")
    ELSE IF /\ "persona_id" \in DOMAIN data
            /\ data.persona_id # agents[agent_id].persona_id
            /\ ~has_role(u, "Admin")
            /\ ~personas[data.persona_id].is_approved
            /\ personas[data.persona_id].created_by # u
    THEN Response(403, "Persona not accessible")
    ELSE Response(200, NULL)

\* The writes of an accepted update_agent: the row, then the audit row.
update_agent_commit(u, agent_id, data) ==
    /\ agents' = [agents EXCEPT ![agent_id] =
                     Overlay(@, agent_changes(u, @, data), data)]
    /\ log_activity(u, "agent_updated", <<>>, "agent", agent_id)
    /\ UNCHANGED <<catalog, workflows, tools, agent_seq, workflow_seq, tool_seq>>

update_agent(u, agent_id, data) ==
    IF \/ Refused(update_agent_response(u, agent_id, data))
       \/ agent_changes(u, agents[agent_id], data) = {}
    THEN UNCHANGED db
    ELSE /\ Len(audit_logs) < MaxAudit
         /\ update_agent_commit(u, agent_id, data)

\* ?hard_delete=true removes the row, for an Admin only.
hard_deletes(u, hard_delete) == hard_delete /\ has_role(u, "Admin")

delete_agent_response(u, agent_id) ==
    IF ~require_role(u, {"Admin", "Developer"})
    THEN Response(403, "Insufficient permissions")
    ELSE IF agent_id \notin DOMAIN agents
    THEN Response(500, "Failed to delete agent")
    ELSE IF ~has_role(u, "Admin") /\ agents[agent_id].created_by # u
    THEN Response(403, "Access denied")
    ELSE Response(200, NULL)

\* The agents table after the handler's final commit: the row marked inactive
\* (logged: log_activity committed the pending assignment; otherwise its
\* rollback discarded it), or removed.
delete_agent_rows(u, agent_id, hard_delete, logged) ==
    IF hard_deletes(u, hard_delete)
    THEN [a \in DOMAIN agents \ {agent_id} |-> agents[a]]
    ELSE IF logged
    THEN [agents EXCEPT ![agent_id].is_active = FALSE]
    ELSE agents

\* The writes of an accepted delete_agent: is_active = False, log_activity
\* (which commits both), the optional hard delete, the final commit.
delete_agent_commit(u, agent_id, hard_delete) ==
    /\ agents' = delete_agent_rows(u, agent_id, hard_delete, TRUE)
    /\ log_activity(u, "agent_deleted", <<>>, "agent", agent_id)
    /\ UNCHANGED <<catalog, workflows, tools, agent_seq, workflow_seq, tool_seq>>

delete_agent(u, agent_id, hard_delete) ==
    IF Refused(delete_agent_response(u, agent_id))
    THEN UNCHANGED db
    ELSE /\ Len(audit_logs) < MaxAudit
         /\ delete_agent_commit(u, agent_id, hard_delete)

\* delete_agent when log_activity raises: its rollback discards the pending
\* is_active = False, the hard delete (if any) is then committed alone, and
\* the handler answers success.
delete_agent_audit_failure(u, agent_id, hard_delete) ==
    IF Refused(delete_agent_response(u, agent_id))
    THEN UNCHANGED db
    ELSE /\ agents' = delete_agent_rows(u, agent_id, hard_delete, FALSE)
         /\ log_activity_raises
         /\ UNCHANGED <<catalog, workflows, tools, agent_seq, workflow_seq, tool_seq>>

\* --------------------------------------------- routes/workflows.py: DELETE
delete_workflow_response(u, workflow_id) ==
    IF ~require_role(u, {"Admin", "Developer"})
    THEN Response(403, "Insufficient permissions")
    ELSE IF workflow_id \notin DOMAIN workflows
    THEN Response(500, "Failed to delete workflow")
    ELSE IF ~has_role(u, "Admin") /\ workflows[workflow_id].created_by # u
    THEN Response(403, "Access denied")
    ELSE Response(200, NULL)

delete_workflow_rows(u, workflow_id, hard_delete, logged) ==
    IF hard_deletes(u, hard_delete)
    THEN [f \in DOMAIN workflows \ {workflow_id} |-> workflows[f]]
    ELSE IF logged
    THEN [workflows EXCEPT ![workflow_id].is_active = FALSE]
    ELSE workflows

delete_workflow(u, workflow_id, hard_delete) ==
    IF Refused(delete_workflow_response(u, workflow_id))
    THEN UNCHANGED db
    ELSE /\ Len(audit_logs) < MaxAudit
         /\ workflows' = delete_workflow_rows(u, workflow_id, hard_delete, TRUE)
         /\ log_activity(u, "workflow_deleted", <<>>, "workflow", workflow_id)
         /\ UNCHANGED <<catalog, agents, tools, agent_seq, workflow_seq, tool_seq>>

\* delete_workflow when log_activity raises and rolls the session back.
delete_workflow_audit_failure(u, workflow_id, hard_delete) ==
    IF Refused(delete_workflow_response(u, workflow_id))
    THEN UNCHANGED db
    ELSE /\ workflows' = delete_workflow_rows(u, workflow_id, hard_delete, FALSE)
         /\ log_activity_raises
         /\ UNCHANGED <<catalog, agents, tools, agent_seq, workflow_seq, tool_seq>>

\* ------------------------------------------------- routes/tools.py: DELETE
\* No agent of this model carries tool_ids, so no active agent uses a tool.
delete_tool_response(u, tool_id) ==
    IF ~require_role(u, {"Admin", "Developer"})
    THEN Response(403, "Insufficient permissions")
    ELSE IF tool_id \notin DOMAIN tools
    THEN Response(500, "Failed to delete tool")
    ELSE IF ~has_role(u, "Admin") /\ tools[tool_id].created_by # u
    THEN Response(403, "Access denied")
    ELSE Response(200, NULL)

delete_tool_rows(u, tool_id, hard_delete, logged) ==
    IF hard_deletes(u, hard_delete)
    THEN [t \in DOMAIN tools \ {tool_id} |-> tools[t]]
    ELSE IF logged
    THEN [tools EXCEPT ![tool_id].is_active = FALSE]
    ELSE tools

delete_tool(u, tool_id, hard_delete) ==
    IF Refused(delete_tool_response(u, tool_id))
    THEN UNCHANGED db
    ELSE /\ Len(audit_logs) < MaxAudit
         /\ tools' = delete_tool_rows(u, tool_id, hard_delete, TRUE)
         /\ log_activity(u, "tool_deleted", <<>>, "tool", tool_id)
         /\ UNCHANGED <<catalog, agents, workflows, agent_seq, workflow_seq, tool_seq>>

\* delete_tool when log_activity raises and rolls the session back.
delete_tool_audit_failure(u, tool_id, hard_delete) ==
    IF Refused(delete_tool_response(u, tool_id))
    THEN UNCHANGED db
    ELSE /\ tools' = delete_tool_rows(u, tool_id, hard_delete, FALSE)
         /\ log_activity_raises
         /\ UNCHANGED <<catalog, agents, workflows, agent_seq, workflow_seq, tool_seq>>

\* ====================================================================== system
\* init_db.py: the admin's sample model and sample persona, both approved,
\* neither with a version row.
SampleModel ==
    [name |-> "a", provider |-> "azure_openai", temperature |-> "0.1",
     description |-> "d0", is_active |-> TRUE, is_approved |-> TRUE,
     created_by |-> 1]

SamplePersona ==
    [name |-> "a", description |-> "d0", system_prompt |-> "X",
     input_schema |-> <<"object", "properties">>, visibility |-> "public", is_approved |-> TRUE, created_by |-> 1]

SampleTool == [name |-> "t0", is_active |-> TRUE, is_approved |-> TRUE, created_by |-> 1]

Workers == 1..MaxInflight
ModelIds == 1..MaxModels
PersonaIds == 1..MaxPersonas

Init ==
    /\ models = [m \in {1} |-> SampleModel]
    /\ model_versions = <<>>
    /\ personas = [p \in {1} |-> SamplePersona]
    /\ persona_versions = <<>>
    /\ audit_logs = <<>>
    /\ model_seq = 2
    /\ persona_seq = 2
    /\ version_seq = 1
    /\ pversion_seq = 1
    /\ agents = [a \in {} |-> NULL]
    /\ workflows = [f \in {} |-> NULL]
    /\ tools = [t \in {1} |-> SampleTool]
    /\ agent_seq = 1
    /\ workflow_seq = 1
    /\ tool_seq = 2
    /\ inflight = [w \in Workers |-> Idle]

\* Requests that do not overlap: each handler runs from its first read to
\* its response before the next request is served.
CreateModel ==
    \E u \in UserIds, data \in CreateModelBodies :
        create_model(u, data) /\ UNCHANGED inflight
UpdateModel ==
    \E u \in UserIds, id \in ModelIds, data \in UpdateModelBodies :
        update_model(u, id, data) /\ UNCHANGED inflight
DeleteModel ==
    \E u \in UserIds, id \in ModelIds : delete_model(u, id) /\ UNCHANGED inflight
ApproveModel ==
    \E u \in UserIds, id \in ModelIds : approve_model(u, id) /\ UNCHANGED inflight
GetModel ==
    \E u \in UserIds, id \in ModelIds : get_model(u, id) /\ UNCHANGED inflight
GetModels ==
    \E u \in UserIds : get_models(u) /\ UNCHANGED inflight
CreatePersona ==
    \E u \in UserIds, data \in CreatePersonaBodies :
        create_persona(u, data) /\ UNCHANGED inflight
UpdatePersona ==
    \E u \in UserIds, id \in PersonaIds, data \in UpdatePersonaBodies :
        update_persona(u, id, data) /\ UNCHANGED inflight
DuplicatePersona ==
    \E u \in UserIds, id \in PersonaIds, data \in DuplicatePersonaBodies :
        duplicate_persona(u, id, data) /\ UNCHANGED inflight
DeletePersona ==
    \E u \in UserIds, id \in PersonaIds : delete_persona(u, id) /\ UNCHANGED inflight
ApprovePersona ==
    \E u \in UserIds, id \in PersonaIds : approve_persona(u, id) /\ UNCHANGED inflight
GetPersona ==
    \E u \in UserIds, id \in PersonaIds : get_persona(u, id) /\ UNCHANGED inflight
GetPersonas ==
    \E u \in UserIds : get_personas(u) /\ UNCHANGED inflight

NextSeq ==
    \/ CreateModel
    \/ UpdateModel
    \/ DeleteModel
    \/ ApproveModel
    \/ GetModel
    \/ GetModels
    \/ CreatePersona
    \/ UpdatePersona
    \/ DuplicatePersona
    \/ DeletePersona
    \/ ApprovePersona
    \/ GetPersona
    \/ GetPersonas

SpecSeq == Init /\ [][NextSeq]_vars

\* One request at a time, where a request may find the audit table
\* unwritable (log_activity takes its except branch).
UpdateModelAuditFailure ==
    \E u \in UserIds, id \in ModelIds, data \in UpdateModelBodies :
        update_model_audit_failure(u, id, data) /\ UNCHANGED inflight
ApproveModelAuditFailure ==
    \E u \in UserIds, id \in ModelIds :
        approve_model_audit_failure(u, id) /\ UNCHANGED inflight

NextAudit ==
    \/ CreateModel
    \/ UpdateModel
    \/ DeleteModel
    \/ ApproveModel
    \/ GetModel
    \/ GetModels
    \/ CreatePersona
    \/ UpdatePersona
    \/ DuplicatePersona
    \/ DeletePersona
    \/ ApprovePersona
    \/ GetPersona
    \/ GetPersonas
    \/ UpdateModelAuditFailure
    \/ ApproveModelAuditFailure

SpecAudit == Init /\ [][NextAudit]_vars

\* Requests that overlap: an update handler reads (the row, its newest
\* version) in one step and commits in a later one; nothing in the handler
\* or the database configuration holds a lock in between.
Pending == {w \in Workers : inflight[w] # Idle}

update_model_begin(w, u, model_id, data) ==
    /\ inflight[w] = Idle
    /\ Len(audit_logs) + Cardinality(Pending) < MaxAudit
    /\ update_model_response(u, model_id, data) = Response(200, NULL)
    /\ inflight' = [inflight EXCEPT ![w] = update_model_read(u, model_id, data)]
    /\ UNCHANGED db

update_model_end(w) ==
    /\ inflight[w].op = "update_model"
    /\ update_model_commit(inflight[w])
    /\ inflight' = [inflight EXCEPT ![w] = Idle]

update_persona_begin(w, u, persona_id, data) ==
    /\ inflight[w] = Idle
    /\ Len(audit_logs) + Cardinality(Pending) < MaxAudit
    /\ update_persona_response(u, persona_id, data) = Response(200, NULL)
    /\ inflight' = [inflight EXCEPT ![w] = update_persona_read(u, persona_id, data)]
    /\ UNCHANGED db

update_persona_end(w) ==
    /\ inflight[w].op = "update_persona"
    /\ update_persona_commit(inflight[w])
    /\ inflight' = [inflight EXCEPT ![w] = Idle]

UpdateModelBegin ==
    \E w \in Workers, u \in UserIds, id \in ModelIds, data \in UpdateModelBodies :
        update_model_begin(w, u, id, data)
UpdateModelEnd == \E w \in Workers : update_model_end(w)
UpdatePersonaBegin ==
    \E w \in Workers, u \in UserIds, id \in PersonaIds, data \in UpdatePersonaBodies :
        update_persona_begin(w, u, id, data)
UpdatePersonaEnd == \E w \in Workers : update_persona_end(w)

Next ==
    \/ CreateModel
    \/ UpdateModelBegin
    \/ UpdateModelEnd
    \/ DeleteModel
    \/ ApproveModel
    \/ GetModel
    \/ GetModels
    \/ CreatePersona
    \/ UpdatePersonaBegin
    \/ UpdatePersonaEnd
    \/ DeletePersona
    \/ ApprovePersona
    \/ GetPersona
    \/ GetPersonas

Spec == Init /\ [][Next]_vars

\* The catalog routes together with the agent, workflow and tool routes, one
\* request at a time.
CreateAgent ==
    \E u \in UserIds, data \in CreateAgentBodies :
        create_agent(u, data) /\ UNCHANGED inflight
ApproveAgent ==
    \E u \in UserIds, id \in 1..MaxAgents, data \in ApproveBodies :
        approve_agent(u, id, data) /\ UNCHANGED inflight
GetAgent ==
    \E u \in UserIds, id \in 1..MaxAgents : get_agent(u, id) /\ UNCHANGED inflight
GetAgents ==
    \E u \in UserIds : get_agents(u) /\ UNCHANGED inflight
CreateWorkflow ==
    \E u \in UserIds, data \in CreateWorkflowBodies :
        create_workflow(u, data) /\ UNCHANGED inflight
ApproveWorkflow ==
    \E u \in UserIds, id \in 1..MaxWorkflows, data \in ApproveBodies :
        approve_workflow(u, id, data) /\ UNCHANGED inflight
GetWorkflow ==
    \E u \in UserIds, id \in 1..MaxWorkflows : get_workflow(u, id) /\ UNCHANGED inflight
GetWorkflows ==
    \E u \in UserIds : get_workflows(u) /\ UNCHANGED inflight
CreateTool ==
    \E u \in UserIds, data \in CreateToolBodies :
        create_tool(u, data) /\ UNCHANGED inflight
ApproveTool ==
    \E u \in UserIds, id \in 1..MaxTools, data \in ApproveBodies :
        approve_tool(u, id, data) /\ UNCHANGED inflight
GetTool ==
    \E u \in UserIds, id \in 1..MaxTools : get_tool(u, id) /\ UNCHANGED inflight
GetTools ==
    \E u \in UserIds : get_tools(u) /\ UNCHANGED inflight

NextAll ==
    \/ CreateModel
    \/ UpdateModel
    \/ DeleteModel
    \/ ApproveModel
    \/ GetModel
    \/ GetModels
    \/ CreatePersona
    \/ UpdatePersona
    \/ DuplicatePersona
    \/ DeletePersona
    \/ ApprovePersona
    \/ GetPersona
    \/ GetPersonas
    \/ CreateAgent
    \/ ApproveAgent
    \/ GetAgent
    \/ GetAgents
    \/ CreateWorkflow
    \/ ApproveWorkflow
    \/ GetWorkflow
    \/ GetWorkflows
    \/ CreateTool
    \/ ApproveTool
    \/ GetTool
    \/ GetTools

SpecAll == Init /\ [][NextAll]_vars

\* ------------------------------------------------- the version-string fallback
\* Parts of a version string: a part int() rejects, and two numbers.
VersionParts == {-1, 0, 1}

\* Version strings of one to MaxParts parts.
VersionStrings ==
    UNION {[1..n -> VersionParts] : n \in 1..MaxParts}

\* The sample model with one version row, of any version string; the rest as
\* init_db.py leaves it.
InitVersions ==
    \E version \in VersionStrings :
        /\ models = [m \in {1} |-> SampleModel]
        /\ model_versions =
              <<ModelVersion(1, 1, version, version_configuration(SampleModel),
                             <<"Initial version">>, 1)>>
        /\ personas = [p \in {1} |-> SamplePersona]
        /\ persona_versions = <<>>
        /\ audit_logs = <<>>
        /\ model_seq = 2
        /\ persona_seq = 2
        /\ version_seq = 2
        /\ pversion_seq = 1
        /\ agents = [a \in {} |-> NULL]
        /\ workflows = [f \in {} |-> NULL]
        /\ tools = [t \in {1} |-> SampleTool]
        /\ agent_seq = 1
        /\ workflow_seq = 1
        /\ tool_seq = 2
        /\ inflight = [w \in Workers |-> Idle]

\* Updates of the model, one after another, and reads of it.
NextVersions ==
    \/ UpdateModel
    \/ GetModel

SpecVersions == InitVersions /\ [][NextVersions]_vars

\* --------------------------------- DELETE of agents, workflows and tools
DeleteAgent ==
    \E u \in UserIds, id \in 1..MaxAgents, hard_delete \in BOOLEAN :
        delete_agent(u, id, hard_delete) /\ UNCHANGED inflight
DeleteWorkflow ==
    \E u \in UserIds, id \in 1..MaxWorkflows, hard_delete \in BOOLEAN :
        delete_workflow(u, id, hard_delete) /\ UNCHANGED inflight
DeleteTool ==
    \E u \in UserIds, id \in 1..MaxTools, hard_delete \in BOOLEAN :
        delete_tool(u, id, hard_delete) /\ UNCHANGED inflight
DeleteAgentAuditFailure ==
    \E u \in UserIds, id \in 1..MaxAgents, hard_delete \in BOOLEAN :
        delete_agent_audit_failure(u, id, hard_delete) /\ UNCHANGED inflight
DeleteWorkflowAuditFailure ==
    \E u \in UserIds, id \in 1..MaxWorkflows, hard_delete \in BOOLEAN :
        delete_workflow_audit_failure(u, id, hard_delete) /\ UNCHANGED inflight
DeleteToolAuditFailure ==
    \E u \in UserIds, id \in 1..MaxTools, hard_delete \in BOOLEAN :
        delete_tool_audit_failure(u, id, hard_delete) /\ UNCHANGED inflight

\* Creation and deletion of agents, workflows and tools, one request after
\* another; during some of the deletions the audit table cannot be written.
NextDeletes ==
    \/ CreateAgent
    \/ CreateWorkflow
    \/ CreateTool
    \/ DeleteAgent
    \/ DeleteWorkflow
    \/ DeleteTool
    \/ DeleteAgentAuditFailure
    \/ DeleteWorkflowAuditFailure
    \/ DeleteToolAuditFailure

SpecDeletes == Init /\ [][NextDeletes]_vars

\* ------------------------------------------------ the life of an agent
\* The requests that create, change and delete an agent and that delete the
\* model and the persona it uses, one after another, with room for
\* MaxHistory audit records.
LifecycleCreateAgent ==
    \E u \in UserIds, data \in CreateAgentBodies :
        /\ IF Refused(create_agent_response(u, data))
           THEN UNCHANGED db
           ELSE /\ Len(audit_logs) < MaxHistory
                /\ create_agent_commit(u, data)
        /\ UNCHANGED inflight
LifecycleUpdateAgent ==
    \E u \in UserIds, id \in 1..MaxAgents, data \in UpdateAgentBodies :
        /\ IF \/ Refused(update_agent_response(u, id, data))
              \/ agent_changes(u, agents[id], data) = {}
           THEN UNCHANGED db
           ELSE /\ Len(audit_logs) < MaxHistory
                /\ update_agent_commit(u, id, data)
        /\ UNCHANGED inflight
LifecycleDeleteAgent ==
    \E u \in UserIds, id \in 1..MaxAgents, hard_delete \in BOOLEAN :
        /\ IF Refused(delete_agent_response(u, id))
           THEN UNCHANGED db
           ELSE /\ Len(audit_logs) < MaxHistory
                /\ delete_agent_commit(u, id, hard_delete)
        /\ UNCHANGED inflight
LifecycleDeleteModel ==
    \E u \in UserIds, id \in ModelIds :
        /\ IF Refused(delete_model_response(u, id))
           THEN UNCHANGED db
           ELSE /\ Len(audit_logs) < MaxHistory
                /\ delete_model_commit(u, id)
        /\ UNCHANGED inflight
LifecycleDeletePersona ==
    \E u \in UserIds, id \in PersonaIds :
        /\ IF Refused(delete_persona_response(u, id))
           THEN UNCHANGED db
           ELSE /\ Len(audit_logs) < MaxHistory
                /\ delete_persona_commit(u, id)
        /\ UNCHANGED inflight

NextLifecycle ==
    \/ LifecycleCreateAgent
    \/ LifecycleUpdateAgent
    \/ LifecycleDeleteAgent
    \/ LifecycleDeleteModel
    \/ LifecycleDeletePersona

SpecLifecycle == Init /\ [][NextLifecycle]_vars

\* --------------------------------------------------- two sample personas
\* init_db.py creates several sample personas, all owned by the admin.
SecondSamplePersona == [SamplePersona EXCEPT !.name = "c"]

InitSamples ==
    /\ models = [m \in {1} |-> SampleModel]
    /\ model_versions = <<>>
    /\ personas = [p \in {1, 2} |->
                      IF p = 1 THEN SamplePersona ELSE SecondSamplePersona]
    /\ persona_versions = <<>>
    /\ audit_logs = <<>>
    /\ model_seq = 2
    /\ persona_seq = 3
    /\ version_seq = 1
    /\ pversion_seq = 1
    /\ agents = [a \in {} |-> NULL]
    /\ workflows = [f \in {} |-> NULL]
    /\ tools = [t \in {1} |-> SampleTool]
    /\ agent_seq = 1
    /\ workflow_seq = 1
    /\ tool_seq = 2
    /\ inflight = [w \in Workers |-> Idle]

\* The persona routes that write a name, updates overlapping.
NextSamples ==
    \/ CreatePersona
    \/ DuplicatePersona
    \/ UpdatePersonaBegin
    \/ UpdatePersonaEnd
    \/ GetPersona

SpecSamples == InitSamples /\ [][NextSamples]_vars

\* ================================================================== properties

\* C1: every Model or Persona that has at least one version has exactly one
\* version with is_active = true, in every reachable state, also when the
\* reads and the commits of two significant updates of one resource
\* interleave.
C1_ExactlyOneActiveVersion ==
    /\ \A m \in DOMAIN models :
          Len(VersionsOf(model_versions, "model_id", m)) >= 1
          => Len(ActiveVersions(model_versions, "model_id", m)) = 1
    /\ \A p \in DOMAIN personas :
          Len(VersionsOf(persona_versions, "persona_id", p)) >= 1
          => Len(ActiveVersions(persona_versions, "persona_id", p)) = 1

\* C2: after any sequence of requests that do not overlap, each existing
\* Model or Persona has no version at all or exactly one active version.
C2_ZeroVersionsOrOneActive ==
    /\ \A m \in DOMAIN models :
          \/ VersionsOf(model_versions, "model_id", m) = <<>>
          \/ Len(ActiveVersions(model_versions, "model_id", m)) = 1
    /\ \A p \in DOMAIN personas :
          \/ VersionsOf(persona_versions, "persona_id", p) = <<>>
          \/ Len(ActiveVersions(persona_versions, "persona_id", p)) = 1

\* A model whose first version has been superseded by a second one.
C2_Witness ==
    \E m \in DOMAIN models :
        /\ Len(VersionsOf(model_versions, "model_id", m)) = 2
        /\ ~VersionsOf(model_versions, "model_id", m)[1].is_active
        /\ VersionsOf(model_versions, "model_id", m)[2].is_active

\* C3: significant updates of one resource are serialized: each version's
\* string is the increment of the version inserted before it (1.0.0, 1.1.0,
\* 1.2.0, ...), and no two versions of one resource carry the same string.
C3_VersionsSerialized ==
    /\ \A m \in DOMAIN models :
          LET vs == VersionsOf(model_versions, "model_id", m)
          IN  /\ \A k \in 1..(Len(vs) - 1) :
                    vs[k + 1].version = next_version(vs[k].version)
              /\ \A j, k \in DOMAIN vs : j # k => vs[j].version # vs[k].version
    /\ \A p \in DOMAIN personas :
          LET vs == VersionsOf(persona_versions, "persona_id", p)
          IN  /\ \A k \in 1..(Len(vs) - 1) :
                    vs[k + 1].version = next_version(vs[k].version)
              /\ \A j, k \in DOMAIN vs : j # k => vs[j].version # vs[k].version

\* C4: a non-admin user reads a resource they do not own (the list returns it
\* and GET by id is not refused) if and only if the resource is approved or
\* its visibility is 'public' (a Model has no visibility).
C4_NonOwnerReadsIffApprovedOrPublic ==
    \A u \in UserIds :
        ~has_role(u, "Admin") =>
            /\ \A m \in DOMAIN models :
                  models[m].created_by # u =>
                      ((/\ m \in get_user_accessible_resources(u, models)
                        /\ ~Refused(get_model_response(u, m)))
                       <=> models[m].is_approved)
            /\ \A p \in DOMAIN personas :
                  personas[p].created_by # u =>
                      ((/\ p \in get_user_accessible_resources(u, personas)
                        /\ ~Refused(get_persona_response(u, p)))
                       <=> (\/ personas[p].is_approved
                            \/ personas[p].visibility = "public"))

\* C5: an Admin reads every Model, Persona, Agent, Workflow and Tool whatever
\* its is_approved flag, owner and visibility: the list filter returns every
\* record and GET by id is never answered 403.
C5_AdminReadsEverything ==
    \A u \in UserIds :
        has_role(u, "Admin") =>
            /\ get_user_accessible_resources(u, models) = DOMAIN models
            /\ get_user_accessible_resources(u, personas) = DOMAIN personas
            /\ get_user_accessible_resources(u, agents) = DOMAIN agents
            /\ get_user_accessible_resources(u, workflows) = DOMAIN workflows
            /\ get_user_accessible_resources(u, tools) = DOMAIN tools
            /\ \A m \in DOMAIN models : get_model_response(u, m).status # 403
            /\ \A p \in DOMAIN personas : get_persona_response(u, p).status # 403
            /\ \A a \in DOMAIN agents : get_agent_response(u, a).status # 403
            /\ \A f \in DOMAIN workflows : get_workflow_response(u, f).status # 403
            /\ \A t \in DOMAIN tools : get_tool_response(u, t).status # 403

\* An unapproved agent and an unapproved tool, neither created by an Admin:
\* records that only their creator and an Admin are let read.
C5_Witness ==
    /\ \E a \in DOMAIN agents :
          ~agents[a].is_approved /\ ~has_role(agents[a].created_by, "Admin")
    /\ \E t \in DOMAIN tools :
          ~tools[t].is_approved /\ ~has_role(tools[t].created_by, "Admin")

\* C6: an update or delete request of a non-admin user on a resource the user
\* did not create is answered 403, whatever the body and also when the
\* resource is unapproved or public; only the creator's request can succeed.
C6_NonOwnerWriteForbidden ==
    \A u \in UserIds :
        ~has_role(u, "Admin") =>
            /\ \A m \in DOMAIN models :
                  models[m].created_by # u =>
                      /\ delete_model_response(u, m).status = 403
                      /\ \A data \in UpdateModelBodies :
                            update_model_response(u, m, data).status = 403
            /\ \A p \in DOMAIN personas :
                  personas[p].created_by # u =>
                      /\ delete_persona_response(u, p).status = 403
                      /\ \A data \in UpdatePersonaBodies :
                            update_persona_response(u, p, data).status = 403

\* An unapproved public persona whose update by a Business User, who holds a
\* role the route admits, is refused by the ownership check, next to a model
\* whose update by a Developer is refused the same way.
C6_Witness ==
    /\ \E p \in DOMAIN personas :
          /\ ~personas[p].is_approved
          /\ personas[p].visibility = "public"
          /\ update_persona_response(3, p, [description |-> "d"])
                = Response(403, "Access denied")
          /\ delete_persona_response(3, p) = Response(403, "Access denied")
    /\ \E m \in DOMAIN models :
          update_model_response(2, m, [temperature |-> "0.7"])
              = Response(403, "Access denied")

\* C7: a request the role check or the ownership check denies (403) executes
\* nothing: resource rows, version rows and the audit log are the same
\* before and after it.
C7_DeniedRequestChangesNothing ==
    [][\A u \in UserIds :
          (\/ \E data \in CreateModelBodies :
                 create_model_response(u, data).status = 403 /\ create_model(u, data)
           \/ \E id \in ModelIds, data \in UpdateModelBodies :
                 /\ update_model_response(u, id, data).status = 403
                 /\ update_model(u, id, data)
           \/ \E id \in ModelIds :
                 delete_model_response(u, id).status = 403 /\ delete_model(u, id)
           \/ \E id \in ModelIds :
                 approve_model_response(u, id).status = 403 /\ approve_model(u, id)
           \/ \E data \in CreatePersonaBodies :
                 /\ create_persona_response(u, data).status = 403
                 /\ create_persona(u, data)
           \/ \E id \in PersonaIds, data \in UpdatePersonaBodies :
                 /\ update_persona_response(u, id, data).status = 403
                 /\ update_persona(u, id, data)
           \/ \E id \in PersonaIds :
                 delete_persona_response(u, id).status = 403 /\ delete_persona(u, id)
           \/ \E id \in PersonaIds :
                 approve_persona_response(u, id).status = 403 /\ approve_persona(u, id))
          => UNCHANGED <<models, model_versions, personas, persona_versions,
                         audit_logs>>]_vars

\* A model with a version row and an audit record, owned by an Admin, whose
\* significant update by a Developer is denied by the ownership check and by
\* a Business User by the role check.
C7_Witness ==
    \E m \in DOMAIN models :
        /\ VersionsOf(model_versions, "model_id", m) # <<>>
        /\ audit_logs # <<>>
        /\ update_model_response(2, m, [temperature |-> "0.7"])
              = Response(403, "Access denied")
        /\ update_model_response(3, m, [temperature |-> "0.7"])
              = Response(403, "Insufficient permissions")

\* C8: no request of a Developer or Business User changes is_approved of a
\* resource that exists before and after it; the flag changes only in
\* requests of an Admin.
C8_OnlyAdminChangesApproval ==
    [][\A u \in UserIds :
          (/\ ~has_role(u, "Admin")
           /\ \/ \E data \in CreateModelBodies : create_model(u, data)
              \/ \E id \in ModelIds, data \in UpdateModelBodies :
                    update_model(u, id, data)
              \/ \E id \in ModelIds : delete_model(u, id)
              \/ \E id \in ModelIds : approve_model(u, id)
              \/ \E data \in CreatePersonaBodies : create_persona(u, data)
              \/ \E id \in PersonaIds, data \in UpdatePersonaBodies :
                    update_persona(u, id, data)
              \/ \E id \in PersonaIds : delete_persona(u, id)
              \/ \E id \in PersonaIds : approve_persona(u, id))
          => /\ \A m \in DOMAIN models \cap DOMAIN models' :
                   models'[m].is_approved = models[m].is_approved
             /\ \A p \in DOMAIN personas \cap DOMAIN personas' :
                   personas'[p].is_approved = personas[p].is_approved]_vars

\* A Developer has updated their own unapproved model with a body that also
\* carried is_approved = true: the audit record shows the one field that
\* changed and the model is still unapproved.
C8_Witness ==
    \E i \in DOMAIN audit_logs :
        /\ audit_logs[i].action = "model_updated"
        /\ ~has_role(audit_logs[i].user_id, "Admin")
        /\ audit_logs[i].resource_id \in DOMAIN models
        /\ ~models[audit_logs[i].resource_id].is_approved
        /\ update_model_response(audit_logs[i].user_id, audit_logs[i].resource_id,
                                 [description |-> "d", is_approved |-> TRUE])
              = Response(200, "No changes detected")

\* C9: approving an unapproved Model or Persona succeeds and sets
\* is_approved; approving it again is answered with the 'already approved'
\* error, and that second request changes no row and writes no audit record.
C9_SecondApproveRefused ==
    [][\A u \in UserIds :
          /\ \A id \in ModelIds :
                /\ (~Refused(approve_model_response(u, id)) /\ approve_model(u, id))
                   => /\ ~models[id].is_approved
                      /\ models'[id].is_approved
                      /\ approve_model_response(u, id)'
                            = Response(400, "Model is already approved")
                /\ (/\ approve_model_response(u, id)
                          = Response(400, "Model is already approved")
                    /\ approve_model(u, id))
                   => UNCHANGED db
          /\ \A id \in PersonaIds :
                /\ (~Refused(approve_persona_response(u, id)) /\ approve_persona(u, id))
                   => /\ ~personas[id].is_approved
                      /\ personas'[id].is_approved
                      /\ approve_persona_response(u, id)'
                            = Response(400, "Persona is already approved")
                /\ (/\ approve_persona_response(u, id)
                          = Response(400, "Persona is already approved")
                    /\ approve_persona(u, id))
                   => UNCHANGED db]_vars

\* The last request served approved a model, and approving it again is
\* answered 'already approved'.
C9_Witness ==
    /\ audit_logs # <<>>
    /\ audit_logs[Len(audit_logs)].action = "model_approved"
    /\ audit_logs[Len(audit_logs)].resource_id \in DOMAIN models
    /\ models[audit_logs[Len(audit_logs)].resource_id].is_approved
    /\ approve_model_response(1, audit_logs[Len(audit_logs)].resource_id)
          = Response(400, "Model is already approved")

\* C10: creating a Model or Persona succeeds for a user whose role the route
\* admits and a body with the required fields and an unused name, and right
\* after it the version list of the new resource is exactly one version:
\* "1.0.0", active, changelog "Initial version".
C10_CreateProducesInitialVersion ==
    /\ \A u \in UserIds, data \in CreatePersonaBodies :
          (/\ require_role(u, {"Admin", "Developer", "Business User"})
           /\ {"name", "system_prompt"} \subseteq DOMAIN data
           /\ ~\E p \in DOMAIN personas :
                 personas[p].name = data.name /\ personas[p].created_by = u)
          => create_persona_response(u, data) = Response(201, NULL)
    /\ (/\ audit_logs # <<>>
        /\ audit_logs[Len(audit_logs)].action = "persona_created")
       => LET vs == VersionsOf(persona_versions, "persona_id",
                               audit_logs[Len(audit_logs)].resource_id)
          IN  /\ Len(vs) = 1
              /\ vs[1].version = InitialVersion
              /\ vs[1].is_active
              /\ vs[1].changelog = <<"Initial version">>
    /\ (/\ audit_logs # <<>>
        /\ audit_logs[Len(audit_logs)].action = "model_created")
       => LET vs == get_model_versions(audit_logs[Len(audit_logs)].resource_id)
          IN  /\ Len(vs) = 1
              /\ vs[1].version = InitialVersion
              /\ vs[1].is_active
              /\ vs[1].changelog = <<"Initial version">>

\* C11: the owner's update of a Model or Persona that changes a significant
\* field does not fail, and right after it the resource's newest version is
\* active, the one before it is inactive and one minor below it (M.m.p ->
\* M.(m+1).0), the changelog names each changed significant field, and the
\* version's snapshot and the live row both hold the new value.
C11_SignificantUpdateCreatesVersion ==
    /\ \A p \in DOMAIN personas, data \in UpdatePersonaBodies :
          (Range(persona_changes(personas[p].created_by, personas[p], data))
              \cap PersonaSignificantFields # {})
          => update_persona_response(personas[p].created_by, p, data).status < 500
    /\ \A m \in DOMAIN models, data \in UpdateModelBodies :
          (Range(model_changes(models[m].created_by, models[m], data))
              \cap ModelSignificantFields # {})
          => update_model_response(models[m].created_by, m, data).status < 500
    /\ (/\ audit_logs # <<>>
        /\ audit_logs[Len(audit_logs)].action = "model_updated")
       => LET rec == audit_logs[Len(audit_logs)]
              vs == VersionsOf(model_versions, "model_id", rec.resource_id)
              n == Len(vs)
          IN  \A i \in DOMAIN rec.details :
                 rec.details[i].field \in ModelSignificantFields
                 => /\ n >= 1
                    /\ vs[n].is_active
                    /\ n > 1 => /\ ~vs[n - 1].is_active
                                /\ vs[n].version
                                      = <<vs[n - 1].version[1],
                                          vs[n - 1].version[2] + 1, 0>>
                    /\ rec.details[i].field \in Range(vs[n].changelog)
                    /\ vs[n].configuration[rec.details[i].field]
                          = rec.details[i].new
                    /\ models[rec.resource_id][rec.details[i].field]
                          = rec.details[i].new

\* C12: an update that changes only fields outside the significant set
\* (name, description; for a Persona also visibility) writes the new values
\* on the resource row and leaves the version rows as they were: the same
\* rows, the same is_active flags, the same active version.
\* (Each of these requests changes the row of its resource, so the steps
\* looked at are those that change a model or persona row.)
C12_MinorUpdateKeepsVersions ==
    [][(models' # models \/ personas' # personas)
       => /\ \A u \in UserIds, id \in ModelIds, data \in UpdateModelBodies :
               (/\ update_model_response(u, id, data) = Response(200, NULL)
                /\ Range(model_changes(u, models[id], data))
                       \subseteq {"name", "description"}
                /\ update_model(u, id, data))
               => /\ model_versions' = model_versions
                  /\ persona_versions' = persona_versions
                  /\ \A f \in Range(model_changes(u, models[id], data)) :
                        models'[id][f] = data[f]
          /\ \A u \in UserIds, id \in PersonaIds, data \in UpdatePersonaBodies :
               (/\ update_persona_response(u, id, data) = Response(200, NULL)
                /\ Range(persona_changes(u, personas[id], data))
                       \subseteq {"name", "description", "visibility"}
                /\ update_persona(u, id, data))
               => /\ model_versions' = model_versions
                  /\ persona_versions' = persona_versions
                  /\ \A f \in Range(persona_changes(u, personas[id], data)) :
                        personas'[id][f] = data[f]]_vars

\* A model that has a version row, right after an update that changed its
\* description and nothing else.
C12_Witness ==
    /\ audit_logs # <<>>
    /\ LET rec == audit_logs[Len(audit_logs)]
       IN  /\ rec.action = "model_updated"
           /\ rec.details # <<>>
           /\ \A i \in DOMAIN rec.details : rec.details[i].field = "description"
           /\ rec.resource_id \in DOMAIN models
           /\ models[rec.resource_id].description = rec.details[1].new
           /\ ActiveVersions(model_versions, "model_id", rec.resource_id) # <<>>

\* C13: the versions of one resource, in the order they were inserted, carry
\* strictly increasing version numbers: every later version has a greater
\* (major, minor) than every earlier one, so no version string occurs twice.
C13_VersionNumbersIncrease ==
    /\ \A m \in ModelIds :
          LET vs == VersionsOf(model_versions, "model_id", m)
          IN  \A j, k \in DOMAIN vs :
                 j < k => \/ vs[j].version[1] < vs[k].version[1]
                          \/ /\ vs[j].version[1] = vs[k].version[1]
                             /\ vs[j].version[2] < vs[k].version[2]
    /\ \A p \in PersonaIds :
          LET vs == VersionsOf(persona_versions, "persona_id", p)
          IN  \A j, k \in DOMAIN vs :
                 j < k => \/ vs[j].version[1] < vs[k].version[1]
                          \/ /\ vs[j].version[1] = vs[k].version[1]
                             /\ vs[j].version[2] < vs[k].version[2]

\* C14: the row every creating handler builds (create_model, create_persona,
\* create_agent, create_workflow, create_tool, duplicate_persona) has
\* is_approved true exactly when the acting user has role Admin.
C14_CreatedApprovedIffAdmin ==
    \A u \in UserIds :
        /\ \A data \in CreateModelBodies :
              NewModel(u, data).is_approved = has_role(u, "Admin")
        /\ \A data \in {d \in CreatePersonaBodies :
                           {"name", "system_prompt"} \subseteq DOMAIN d} :
              NewPersona(u, data).is_approved = has_role(u, "Admin")
        /\ \A data \in {d \in CreateAgentBodies :
                           {"name", "model_id", "persona_id"} \subseteq DOMAIN d} :
              NewAgent(u, data).is_approved = has_role(u, "Admin")
        /\ \A data \in CreateWorkflowBodies :
              NewWorkflow(u, data).is_approved = has_role(u, "Admin")
        /\ \A data \in CreateToolBodies :
              NewTool(u, data).is_approved = has_role(u, "Admin")
        /\ \A p \in DOMAIN personas, data \in DuplicatePersonaBodies :
              NewDuplicate(u, personas[p], data).is_approved = has_role(u, "Admin")

\* C15: the role check of every resource type admits Admin, Developer and
\* Business User to create, refuses a Business User's update and delete with
\* 403 and admits Admin and Developer to them, and refuses everyone but an
\* Admin the approve.
C15_RoleMatrix ==
    LET denied == Response(403, "Insufficient permissions")
    IN  \A u \in UserIds :
           /\ \A data \in CreateModelBodies : create_model_response(u, data) # denied
           /\ \A data \in CreatePersonaBodies : create_persona_response(u, data) # denied
           /\ \A data \in CreateAgentBodies : create_agent_response(u, data) # denied
           /\ \A data \in CreateWorkflowBodies :
                 create_workflow_response(u, data) # denied
           /\ \A data \in CreateToolBodies : create_tool_response(u, data) # denied
           /\ \A id \in ModelIds, data \in UpdateModelBodies :
                 (update_model_response(u, id, data) = denied)
                    <=> ~has_role(u, "Admin") /\ ~has_role(u, "Developer")
           /\ \A id \in ModelIds :
                 (delete_model_response(u, id) = denied)
                    <=> ~has_role(u, "Admin") /\ ~has_role(u, "Developer")
           /\ \A id \in PersonaIds, data \in UpdatePersonaBodies :
                 (update_persona_response(u, id, data) = denied)
                    <=> ~has_role(u, "Admin") /\ ~has_role(u, "Developer")
           /\ \A id \in PersonaIds :
                 (delete_persona_response(u, id) = denied)
                    <=> ~has_role(u, "Admin") /\ ~has_role(u, "Developer")
           /\ \A id \in ModelIds :
                 (approve_model_response(u, id) = denied) <=> ~has_role(u, "Admin")
           /\ \A id \in PersonaIds :
                 (approve_persona_response(u, id) = denied) <=> ~has_role(u, "Admin")
           /\ \A id \in 1..MaxAgents, data \in ApproveBodies :
                 (approve_agent_response(u, id, data) = denied)
                    <=> ~has_role(u, "Admin")
           /\ \A id \in 1..MaxWorkflows, data \in ApproveBodies :
                 (approve_workflow_response(u, id, data) = denied)
                    <=> ~has_role(u, "Admin")
           /\ \A id \in 1..MaxTools, data \in ApproveBodies :
                 (approve_tool_response(u, id, data) = denied)
                    <=> ~has_role(u, "Admin")

\* C16: a get, update, delete or approve of an id that names no resource,
\* sent by a user the role check admits, is answered 404 (not 403, not 500).
C16_MissingResourceIs404 ==
    /\ \A u \in UserIds, id \in ModelIds \ DOMAIN models :
          /\ get_model_response(u, id).status = 404
          /\ require_role(u, {"Admin", "Developer"})
             => /\ \A data \in UpdateModelBodies :
                      update_model_response(u, id, data).status = 404
                /\ delete_model_response(u, id).status = 404
          /\ require_role(u, {"Admin"}) => approve_model_response(u, id).status = 404
    /\ \A u \in UserIds, id \in PersonaIds \ DOMAIN personas :
          /\ get_persona_response(u, id).status = 404
          /\ \A data \in UpdatePersonaBodies :
                update_persona_response(u, id, data).status = 404
          /\ delete_persona_response(u, id).status = 404
          /\ require_role(u, {"Admin"}) => approve_persona_response(u, id).status = 404
    /\ \A u \in UserIds :
          /\ \A id \in (1..MaxAgents) \ DOMAIN agents :
                /\ get_agent_response(u, id).status = 404
                /\ require_role(u, {"Admin"})
                   => \A data \in ApproveBodies :
                         approve_agent_response(u, id, data).status = 404
          /\ \A id \in (1..MaxWorkflows) \ DOMAIN workflows :
                /\ get_workflow_response(u, id).status = 404
                /\ require_role(u, {"Admin"})
                   => \A data \in ApproveBodies :
                         approve_workflow_response(u, id, data).status = 404
          /\ \A id \in (1..MaxTools) \ DOMAIN tools :
                /\ get_tool_response(u, id).status = 404
                /\ require_role(u, {"Admin"})
                   => \A data \in ApproveBodies :
                         approve_tool_response(u, id, data).status = 404

\* C17: every step that commits a change to a model, a persona or a version
\* row appends, in the same step, one audit record that carries the actor,
\* the action, the resource type and the id of the resource changed, and, for
\* an update, the old and the new value of every changed field.
C17_MutationIsAudited ==
    [][(\/ models' # models
        \/ model_versions' # model_versions
        \/ personas' # personas
        \/ persona_versions' # persona_versions)
       => /\ Len(audit_logs') = Len(audit_logs) + 1
          /\ SubSeq(audit_logs', 1, Len(audit_logs)) = audit_logs
          /\ LET rec == audit_logs'[Len(audit_logs')]
                 before == IF rec.resource_type = "model" THEN models ELSE personas
                 after == IF rec.resource_type = "model" THEN models' ELSE personas'
             IN  /\ rec.user_id \in UserIds
                 /\ rec.resource_type \in {"model", "persona"}
                 /\ rec.action \in {rec.resource_type \o "_created",
                                    rec.resource_type \o "_updated",
                                    rec.resource_type \o "_deleted",
                                    rec.resource_type \o "_approved",
                                    rec.resource_type \o "_duplicated"}
                 /\ rec.resource_id \in DOMAIN before \cup DOMAIN after
                 /\ \A id \in (DOMAIN before \cup DOMAIN after) \ {rec.resource_id} :
                       /\ id \in DOMAIN before \cap DOMAIN after
                       /\ before[id] = after[id]
                 /\ rec.action \in {"model_updated", "persona_updated"}
                    => /\ rec.details # <<>>
                       /\ \A i \in DOMAIN rec.details :
                             /\ rec.details[i].old
                                   = before[rec.resource_id][rec.details[i].field]
                             /\ rec.details[i].new
                                   = after[rec.resource_id][rec.details[i].field]]_vars

\* C18: a Persona update by a user allowed to update it, with a JSON field
\* (input_schema, output_schema, variables) that is a string json.loads
\* rejects, is answered 400 with a validation error, and the request leaves
\* the persona rows (the other fields sent with it included), the version
\* rows and the audit log as they were.
C18_InvalidJsonRejectedWhole ==
    [][\A u \in UserIds, id \in DOMAIN personas, data \in UpdatePersonaBodies :
          (/\ persona_invalid_json(data)
           /\ has_role(u, "Admin") \/ personas[id].created_by = u)
          => /\ update_persona_response(u, id, data) = Response(400, "Invalid format")
             /\ update_persona(u, id, data)
                => UNCHANGED <<personas, persona_versions, model_versions,
                               audit_logs>>]_vars

\* A persona whose owner sends a new description together with an
\* input_schema that is no JSON document, and is answered 400.
C18_Witness ==
    \E id \in DOMAIN personas :
        LET data == [description |-> "d", input_schema |-> "{bad"]
        IN  /\ data \in UpdatePersonaBodies
            /\ personas[id].description # data.description
            /\ ~json_decodes(data.input_schema)
            /\ update_persona_response(personas[id].created_by, id, data).status = 400

\* C19: the commit of an update is all or nothing.  A commit that fails
\* (answer 500) changes no table.  A step that touches the version rows and
\* neither creates nor deletes a model appends exactly one row, active,
\* leaves every older row as it was except that the rows it deactivates
\* belong to the same model, and the model row holds the value the new
\* version's snapshot holds; and a step that changes a significant field of
\* a model appends a version of it.
C19_SignificantUpdateAtomic ==
    [][/\ \A w \in Workers :
            /\ (/\ update_model_end(w)
                /\ Refused(update_model_commit_response(inflight[w])))
               => UNCHANGED db
            /\ (/\ update_persona_end(w)
                /\ Refused(update_persona_commit_response(inflight[w])))
               => UNCHANGED db
       /\ (model_versions' # model_versions /\ DOMAIN models' = DOMAIN models)
          => /\ Len(model_versions') = Len(model_versions) + 1
             /\ LET new == model_versions'[Len(model_versions')]
                IN  /\ new.is_active
                    /\ \A i \in DOMAIN model_versions :
                          \/ model_versions'[i] = model_versions[i]
                          \/ /\ model_versions[i].model_id = new.model_id
                             /\ model_versions'[i]
                                   = [model_versions[i] EXCEPT !.is_active = FALSE]
                    /\ new.model_id \in DOMAIN models
                    /\ models'[new.model_id].temperature
                          = new.configuration.temperature
       /\ \A m \in DOMAIN models \cap DOMAIN models' :
             models'[m].temperature # models[m].temperature
             => /\ Len(model_versions') = Len(model_versions) + 1
                /\ model_versions'[Len(model_versions')].model_id = m]_vars

\* A significant update of a model that has read its rows and whose commit
\* will fail: the model row was deleted in between.
C19_Witness ==
    \E w \in Workers :
        /\ inflight[w].op = "update_model"
        /\ inflight[w].significant
        /\ inflight[w].rid \notin DOMAIN models
        /\ Refused(update_model_commit_response(inflight[w]))
        /\ audit_logs # <<>>
        /\ audit_logs[Len(audit_logs)].action = "model_deleted"

\* C20: approving a Model or Persona, or an update that changes is_approved
\* and nothing else, leaves every version row as it was and adds none; and a
\* significant update, which writes a new version, leaves is_approved as it
\* was unless the request itself, sent by an Admin, carries another value of
\* is_approved.
\* (Each of these requests changes the row of its resource, so the steps
\* looked at are those that change a model or persona row.)
C20_ApprovalAndVersionsIndependent ==
    [][(models' # models \/ personas' # personas)
       => /\ \A u \in UserIds, id \in ModelIds :
               (~Refused(approve_model_response(u, id)) /\ approve_model(u, id))
               => UNCHANGED <<model_versions, persona_versions>>
          /\ \A u \in UserIds, id \in PersonaIds :
               (~Refused(approve_persona_response(u, id)) /\ approve_persona(u, id))
               => UNCHANGED <<model_versions, persona_versions>>
          /\ \A u \in UserIds, id \in ModelIds, data \in UpdateModelBodies :
               (/\ update_model_response(u, id, data) = Response(200, NULL)
                /\ update_model(u, id, data))
               => LET changed == Range(model_changes(u, models[id], data))
                  IN  /\ changed = {"is_approved"}
                         => UNCHANGED <<model_versions, persona_versions>>
                      /\ (/\ changed \cap ModelSignificantFields # {}
                          /\ "is_approved" \notin changed)
                         => models'[id].is_approved = models[id].is_approved
          /\ \A u \in UserIds, id \in PersonaIds, data \in UpdatePersonaBodies :
               (/\ update_persona_response(u, id, data) = Response(200, NULL)
                /\ update_persona(u, id, data))
               => LET changed == Range(persona_changes(u, personas[id], data))
                  IN  /\ changed = {"is_approved"}
                         => UNCHANGED <<model_versions, persona_versions>>
                      /\ (/\ changed \cap PersonaSignificantFields # {}
                          /\ "is_approved" \notin changed)
                         => personas'[id].is_approved = personas[id].is_approved]_vars

\* C20 as the specification states it: every significant update of a model
\* leaves is_approved as it was.
C20_SignificantUpdateKeepsApproval ==
    [][\A u \in UserIds, id \in ModelIds, data \in UpdateModelBodies :
          (/\ update_model_response(u, id, data) = Response(200, NULL)
           /\ Range(model_changes(u, models[id], data)) \cap ModelSignificantFields # {}
           /\ update_model(u, id, data))
          => models'[id].is_approved = models[id].is_approved]_vars

\* A model that got a version from a significant update which left it
\* approved, and then lost the approval in an update of is_approved alone
\* which left that version the active one.
C20_Witness ==
    /\ Len(audit_logs) = 2
    /\ audit_logs[1].action = "model_updated"
    /\ audit_logs[2].action = "model_updated"
    /\ audit_logs[1].resource_id = audit_logs[2].resource_id
    /\ \E i \in DOMAIN audit_logs[1].details :
          audit_logs[1].details[i].field \in ModelSignificantFields
    /\ \A i \in DOMAIN audit_logs[1].details :
          audit_logs[1].details[i].field # "is_approved"
    /\ audit_logs[2].details
          = <<[field |-> "is_approved", old |-> TRUE, new |-> FALSE]>>
    /\ Len(ActiveVersions(model_versions, "model_id", audit_logs[2].resource_id)) = 1


\* C21: created_by of a Model or Persona is the id of the user whose request
\* created it, and no later request changes it: every row that a step
\* inserts carries the id of the user the step's audit record names, the rows
\* the two creating handlers of personas build carry the acting user's id,
\* and every row present before and after a step (an update, approval,
\* duplication or deletion of any resource, by any user, Admin included)
\* keeps its created_by.
C21_CreatedByNeverChanges ==
    [][/\ \A m \in DOMAIN models \cap DOMAIN models' :
             models'[m].created_by = models[m].created_by
       /\ \A p \in DOMAIN personas \cap DOMAIN personas' :
             personas'[p].created_by = personas[p].created_by
       /\ \A m \in DOMAIN models' \ DOMAIN models :
             /\ Len(audit_logs') = Len(audit_logs) + 1
             /\ models'[m].created_by = audit_logs'[Len(audit_logs')].user_id
       /\ \A p \in DOMAIN personas' \ DOMAIN personas :
             /\ Len(audit_logs') = Len(audit_logs) + 1
             /\ personas'[p].created_by = audit_logs'[Len(audit_logs')].user_id
       /\ \A u \in UserIds :
             /\ \A data \in {d \in CreatePersonaBodies :
                                {"name", "system_prompt"} \subseteq DOMAIN d} :
                   NewPersona(u, data).created_by = u
             /\ \A p \in DOMAIN personas, data \in DuplicatePersonaBodies :
                   NewDuplicate(u, personas[p], data).created_by = u]_vars

\* A model the Developer created, still the Developer's after the Admin's
\* request (an update or the approval) changed its row.
C21_Witness ==
    /\ Len(audit_logs) = 2
    /\ audit_logs[1].action = "model_created"
    /\ audit_logs[1].user_id = 2
    /\ audit_logs[2].action \in {"model_updated", "model_approved"}
    /\ audit_logs[2].user_id = 1
    /\ audit_logs[2].resource_id = audit_logs[1].resource_id
    /\ audit_logs[1].resource_id \in DOMAIN models
    /\ models[audit_logs[1].resource_id].created_by = 2

\* C22: the approve routes of Agent, Workflow and Tool take a flag and have
\* no guard against repetition: an Admin's request on a resource that exists,
\* with a body that is not empty, is answered with success whatever
\* is_approved was, and leaves is_approved equal to the flag (true when the
\* body has no approve key): true stays true, false is written from either
\* state.
C22_ApproveFlagIsWritten ==
    [][\A u \in UserIds, data \in ApproveBodies \ {EmptyBody} :
          has_role(u, "Admin") =>
             /\ \A id \in DOMAIN agents :
                   /\ approve_agent_response(u, id, data) = Response(200, NULL)
                   /\ (approve_agent(u, id, data) /\ agents' # agents)
                         => agents'[id].is_approved = approve_flag(data)
                   /\ approve_agent(u, id, data)
                         => (agents' = agents
                                <=> agents[id].is_approved = approve_flag(data))
             /\ \A id \in DOMAIN workflows :
                   /\ approve_workflow_response(u, id, data) = Response(200, NULL)
                   /\ (approve_workflow(u, id, data) /\ workflows' # workflows)
                         => workflows'[id].is_approved = approve_flag(data)
                   /\ approve_workflow(u, id, data)
                         => (workflows' = workflows
                                <=> workflows[id].is_approved = approve_flag(data))
             /\ \A id \in DOMAIN tools :
                   /\ approve_tool_response(u, id, data) = Response(200, NULL)
                   /\ (approve_tool(u, id, data) /\ tools' # tools)
                         => tools'[id].is_approved = approve_flag(data)
                   /\ approve_tool(u, id, data)
                         => (tools' = tools
                                <=> tools[id].is_approved = approve_flag(data))]_vars

\* The approved sample tool, approved once more (accepted, still approved)
\* and then rejected.
C22_Witness ==
    /\ Len(audit_logs) = 2
    /\ audit_logs[1].action = "tool_approved"
    /\ audit_logs[2].action = "tool_rejected"
    /\ audit_logs[1].resource_id = 1
    /\ audit_logs[2].resource_id = 1
    /\ ~tools[1].is_approved

C24_VersionRowsImmutable ==
    [][/\ \A i \in DOMAIN model_versions, j \in DOMAIN model_versions' :
             model_versions'[j].id = model_versions[i].id
             => /\ model_versions'[j] =
                      [model_versions[i] EXCEPT
                          !.is_active = model_versions'[j].is_active]
                /\ model_versions'[j].is_active => model_versions[i].is_active
       /\ \A i \in DOMAIN persona_versions, j \in DOMAIN persona_versions' :
             persona_versions'[j].id = persona_versions[i].id
             => /\ persona_versions'[j] =
                      [persona_versions[i] EXCEPT
                          !.is_active = persona_versions'[j].is_active]
                /\ persona_versions'[j].is_active => persona_versions[i].is_active]_vars

\* Three version rows of one model after two significant updates: the two
\* older ones inactive (the oldest through both updates), the newest active.
C24_Witness ==
    \E id \in DOMAIN models :
        LET vs == VersionsOf(model_versions, "model_id", id)
        IN  /\ Len(vs) = 3
            /\ ~vs[1].is_active
            /\ ~vs[2].is_active
            /\ vs[3].is_active
            /\ vs[1].changelog = <<"Initial version">>

\* C25: right after a model is created, its one version row is "1.0.0" and
\* the configuration stored in it equals the content columns of the model
\* row as persisted, also when the request left temperature out and the row
\* took the default.
C25_InitialSnapshotIsTheRow ==
    (Len(audit_logs) > 0 /\ audit_logs[Len(audit_logs)].action = "model_created")
    => LET id == audit_logs[Len(audit_logs)].resource_id
           vs == VersionsOf(model_versions, "model_id", id)
       IN  /\ Len(vs) = 1
           /\ vs[1].version = InitialVersion
           /\ vs[1].configuration = version_configuration(models[id])

\* C26: the list filter gives a Developer and a Business User of the same
\* user id the same rows of every table (models, personas, agents,
\* workflows, tools): exactly the rows that are approved or that the user
\* created.
C26_DeveloperAndBusinessUserSeeTheSame ==
    \A user_id \in UserIds :
        \A rows \in {models, personas, agents, workflows, tools} :
            /\ accessible_for_role("Developer", user_id, rows)
                  = accessible_for_role("Business User", user_id, rows)
            /\ accessible_for_role("Developer", user_id, rows)
                  = {r \in DOMAIN rows :
                        rows[r].is_approved \/ rows[r].created_by = user_id}

\* A model that is not approved: listed for its owner, not for another user
\* who is not an Admin, next to an approved model listed for both.
C26_Witness ==
    \E m, n \in DOMAIN models, user_id, other \in UserIds :
        /\ ~models[m].is_approved
        /\ models[m].created_by = user_id
        /\ models[n].is_approved
        /\ models[n].created_by \notin {user_id, other}
        /\ accessible_for_role("Developer", user_id, models) = {m, n}
        /\ accessible_for_role("Business User", other, models) = {n}

\* C27: for a user who is not an Admin and a persona that exists, the list
\* and the single-record route agree: the persona is among the rows
\* get_user_accessible_resources returns iff get_persona does not answer 403.
C27_ListAndGetAgree ==
    \A u \in UserIds, p \in DOMAIN personas :
        ~has_role(u, "Admin")
        => (p \in get_user_accessible_resources(u, personas)
               <=> get_persona_response(u, p).status # 403)

\* C28: a failure of the audit logging does not alter what the operation
\* persists: whenever a DELETE of an agent, workflow or tool is answered
\* with success, the table the handler leaves behind has the row inactive,
\* or no longer has it after a hard delete, whether log_activity wrote its
\* record or raised and rolled back.
C28_AcceptedDeleteIsPersisted ==
    \A u \in UserIds, hard_delete \in BOOLEAN, logged \in BOOLEAN :
        /\ \A id \in DOMAIN agents :
              ~Refused(delete_agent_response(u, id))
              => LET rows == delete_agent_rows(u, id, hard_delete, logged)
                 IN  id \in DOMAIN rows => ~rows[id].is_active
        /\ \A id \in DOMAIN workflows :
              ~Refused(delete_workflow_response(u, id))
              => LET rows == delete_workflow_rows(u, id, hard_delete, logged)
                 IN  id \in DOMAIN rows => ~rows[id].is_active
        /\ \A id \in DOMAIN tools :
              ~Refused(delete_tool_response(u, id))
              => LET rows == delete_tool_rows(u, id, hard_delete, logged)
                 IN  id \in DOMAIN rows => ~rows[id].is_active

\* C29: every active agent refers to a model and a persona that exist: no
\* sequence of create_agent, update_agent (an Admin re-activating an agent
\* included), delete_agent, delete_model and delete_persona leaves an active
\* agent whose model or persona has been deleted.
C29_ActiveAgentReferencesExist ==
    \A a \in DOMAIN agents :
        agents[a].is_active
        => /\ agents[a].model_id \in DOMAIN models
           /\ agents[a].persona_id \in DOMAIN personas

\* C30: no two personas with the same created_by carry the same name,
\* whatever create_persona, duplicate_persona and update_persona requests
\* (renames by owners, and by Admins of other users' personas) were served.
C30_NamesUniquePerOwner ==
    \A p, q \in DOMAIN personas :
        (/\ personas[p].created_by = personas[q].created_by
         /\ personas[p].name = personas[q].name)
        => p = q
====
